---- MODULE Spec2Model ----
(***************************************************************************)
(* PDAO mobile backend: the register and login handlers of the auth        *)
(* controller, the express-validator chains and the validate middleware    *)
(* that run before them, the Mongoose user model (setters, defaults,       *)
(* save hooks, unique indexes, serializers) and the authenticate           *)
(* middleware.                                                             *)
(*                                                                         *)
(* Text values that the code inspects character by character (emails,      *)
(* contact numbers) are sequences of one-character strings; passwords and  *)
(* messages are strings.  JSON null is the value NULL; an absent key is a  *)
(* key that is not in the DOMAIN of the record.  Profile fields that no    *)
(* handler branches on (names, sex, address) are left out of the bodies    *)
(* and of the stored records.                                              *)
(*                                                                         *)
(* Handlers are cut at their awaited storage calls: every storage call is  *)
(* one atomic step, and the synchronous code before it belongs to the      *)
(* step.                                                                   *)
(***************************************************************************)
EXTENDS Integers, Sequences, FiniteSets, TLC

\* ------------------------------------------------------------ bounds
\* Last day (counted from the first request) the clock reaches.
MaxInFlight == 2
MaxNow == 7
\* Days the clock advances in one step.
TickDays == 7
\* Requests that can be in flight at the same time.
Procs == {"p1", "p2"}

\* ------------------------------------------------------------ program constants
\* expiresIn: "7d"
TokenLifetimeDays == 7
PasswordMinLength == 8
PasswordMaxLength == 100
ContactLength == 11

NULL == "<null>"

\* ------------------------------------------------------------ text helpers
Digits == {"0", "1", "2", "3", "4", "5", "6", "7", "8", "9"}

LowerChar(c) ==
  CASE c = "A" -> "a"
    [] c = "B" -> "b"
    [] c = "X" -> "x"
    [] OTHER -> c

\* String.prototype.toLowerCase
toLowerCase(s) == [i \in 1..Len(s) |-> LowerChar(s[i])]

RECURSIVE TrimLeft(_)
TrimLeft(s) == IF s # <<>> /\ Head(s) = " " THEN TrimLeft(Tail(s)) ELSE s

RECURSIVE TrimRight(_)
TrimRight(s) ==
  IF s # <<>> /\ s[Len(s)] = " " THEN TrimRight(SubSeq(s, 1, Len(s) - 1)) ELSE s

\* String.prototype.trim
trim(s) == TrimRight(TrimLeft(s))

\* isEmail / z.string().email(): one "@" with text on both sides, no blanks.
isEmail(s) ==
  /\ Cardinality({i \in 1..Len(s) : s[i] = "@"}) = 1
  /\ s[1] # "@"
  /\ s[Len(s)] # "@"
  /\ \A i \in 1..Len(s) : s[i] # " "

\* normalizeEmail with its default options: the whole address is lowercased
\* (the provider-specific rewrites do not apply to the domains used here).
normalizeEmail(s) == IF isEmail(s) THEN toLowerCase(s) ELSE s

\* A pattern that takes any eleven digits after a leading 0.
Matches09AnyPrefix(v) ==
  /\ Len(v) = ContactLength
  /\ v[1] = "0"
  /\ \A i \in 1..Len(v) : v[i] \in Digits

\* /^09\d{9}$/
Matches09(v) ==
  /\ Len(v) = ContactLength
  /\ v[1] = "0"
  /\ v[2] = "9"
  /\ \A i \in 1..Len(v) : v[i] \in Digits

\* String.prototype.replace(/\D/g, "")
StripNonDigits(v) == SelectSeq(v, LAMBDA c : c \in Digits)

StartsWith(v, p) == Len(v) >= Len(p) /\ SubSeq(v, 1, Len(p)) = p

\* String.prototype.substring(from) and substring(0, to)
SubstringFrom(v, from) == SubSeq(v, from + 1, Len(v))
SubstringTo(v, to) == SubSeq(v, 1, IF Len(v) < to THEN Len(v) ELSE to)

\* ------------------------------------------------------------ dates
\* The server's clock, in days since the first request; new Date() reads it.
\* A date of birth is the calendar day [y, m, d]; a request carries it as
\* text, which may have a time part after the day.
StartDay == [y |-> 2026, m |-> 1, d |-> 1]

DayNumber(date) == (date.y * 12 + date.m) * 31 + date.d

Today(now) == [y |-> StartDay.y, m |-> StartDay.m, d |-> StartDay.d + now]

\* new Date(text): the calendar day the text names.
ParseDate(text) == [kind |-> "Date", y |-> text.y, m |-> text.m, d |-> text.d]

\* /^\d{4}-\d{2}-\d{2}$/ : the text is a bare day, nothing after it.
MatchesYMD(text) == text.time = ""

\* ------------------------------------------------------------ request bodies
\* The keys of a body that the registration schema picks.
RegisterKeys == {"date_of_birth", "contact_number", "email", "password"}

Restrict(f, keys) == [k \in (DOMAIN f) \cap keys |-> f[k]]

Entry(field, message) == [field |-> field, message |-> message]

Response(status, body) == [status |-> status, body |-> body]

\* ------------------------------------------------------------ express-validator
\* One chain per field; a chain reports every validator of it that fails.
EmailChain(body) ==
  (IF body.email = <<>> THEN <<Entry("email", "Email is required")>> ELSE <<>>)
  \o (IF body.email = <<>> \/ ~isEmail(body.email)
      THEN <<Entry("email", "Must be a valid email")>> ELSE <<>>)

PasswordChain(body) ==
  (IF body.password = "" THEN <<Entry("password", "Password is required")>> ELSE <<>>)
  \o (IF Len(body.password) < PasswordMinLength
      THEN <<Entry("password", "Password must be at least 8 characters")>> ELSE <<>>)
  \o (IF Len(body.password) > PasswordMaxLength
      THEN <<Entry("password", "Password cannot exceed 100 characters")>> ELSE <<>>)

DateOfBirthChain(body, now) ==
  IF DayNumber(body.date_of_birth) > DayNumber(Today(now))
  THEN <<Entry("date_of_birth", "Date of birth cannot be in the future")>>
  ELSE <<>>

ContactChain(body) ==
  (IF body.contact_number = <<>>
   THEN <<Entry("contact_number", "Contact number is required")>> ELSE <<>>)
  \o (IF ~Matches09(body.contact_number)
      THEN <<Entry("contact_number",
               "Phone number must be exactly 11 digits starting with 09 (09XXXXXXXXX)")>>
      ELSE <<>>)
  \o (IF Len(body.contact_number) # ContactLength
      THEN <<Entry("contact_number", "Phone number must be exactly 11 characters")>>
      ELSE <<>>)

\* An optional() that also skips a null value.
OptionalSkipsNullable(body, key) == key \notin DOMAIN body \/ body[key] = NULL

\* .optional(): the chain is skipped only when the value is undefined, that is
\* when the body has no such key; null and "" are values and are validated.
OptionalSkips(body, key) == key \notin DOMAIN body

FormIdChain(body) ==
  IF OptionalSkips(body, "form_id")
  THEN <<>>
  ELSE <<Entry("form_id", "form_id cannot be set during registration")>>

registerValidator(body, now) ==
  EmailChain(body) \o PasswordChain(body) \o DateOfBirthChain(body, now)
  \o ContactChain(body) \o FormIdChain(body)

LoginPasswordChain(body) ==
  IF body.password = "" THEN <<Entry("password", "Password is required")>> ELSE <<>>

loginValidator(body) == EmailChain(body) \o LoginPasswordChain(body)

\* The sanitizers of the chains rewrite the body in place.
SanitizeRegister(body) ==
  [body EXCEPT !.email = trim(toLowerCase(normalizeEmail(@))),
               !.contact_number = trim(@)]

SanitizeLogin(body) ==
  [body EXCEPT !.email = trim(toLowerCase(normalizeEmail(@)))]

FormIdRejection ==
  Response(400,
    [success |-> FALSE,
     message |-> "Invalid registration data",
     errors |-> <<Entry("form_id",
                   "form_id is automatically generated and cannot be provided")>>])

\* A validate that calls next() whatever the chains reported.
ValidationStopsNever(errors) == FALSE

\* validate: with errors it responds and returns; without, it calls next().
ValidationStops(errors) == errors # <<>>

\* validate: the response when the chains reported errors.
validate(errors) ==
  IF \E i \in 1..Len(errors) : errors[i].field = "form_id"
  THEN FormIdRejection
  ELSE Response(400,
         [success |-> FALSE, message |-> "Validation failed", errors |-> errors])

\* ------------------------------------------------------------ zod schemas
\* UserRegisterSchema.parse: the issues it raises, in the order of the shape.
RegisterIssues(body, now) ==
  (IF ~MatchesYMD(body.date_of_birth)
   THEN <<Entry("date_of_birth", "Date must be in YYYY-MM-DD format")>> ELSE <<>>)
  \o (IF DayNumber(body.date_of_birth) > DayNumber(Today(now))
      THEN <<Entry("date_of_birth", "Date of birth cannot be in the future")>> ELSE <<>>)
  \o (IF Len(body.contact_number) < ContactLength \/ Len(body.contact_number) > ContactLength
      THEN <<Entry("contact_number", "Phone number must be 11 characters (09XXXXXXXXX)")>>
      ELSE <<>>)
  \o (IF ~Matches09(body.contact_number)
      THEN <<Entry("contact_number",
               "Phone number must start with 09 and have 11 digits total")>>
      ELSE <<>>)
  \o (IF ~isEmail(body.email) THEN <<Entry("email", "Invalid email format")>> ELSE <<>>)
  \o (IF Len(body.password) < PasswordMinLength
      THEN <<Entry("password", "Password must be at least 8 characters")>> ELSE <<>>)
  \o (IF Len(body.password) > PasswordMaxLength
      THEN <<Entry("password", "Password cannot exceed 100 characters")>> ELSE <<>>)

\* What parse returns: the picked keys only, every other key stripped.
validateUserRegister(body) == Restrict(body, RegisterKeys)

LoginIssues(body) ==
  (IF ~isEmail(body.email) THEN <<Entry("email", "Invalid email format")>> ELSE <<>>)
  \o (IF Len(body.password) < 1
      THEN <<Entry("password", "Password is required")>> ELSE <<>>)

ZodRejection(issues) ==
  Response(400,
    [success |-> FALSE, message |-> "Validation failed", errors |-> issues])

\* ------------------------------------------------------------ user model
\* The whole-year age of the save hook and of sanitizeUserForPublic.
AgeAt(birth, today) ==
  LET years == today.y - birth.y
      monthDiff == today.m - birth.m
  IN  IF monthDiff < 0 \/ (monthDiff = 0 /\ today.d < birth.d)
      THEN years - 1
      ELSE years

\* bcrypt.hash: the stored text is not the password and verifies only it.
Hash(password) == "$2a$10$" \o password

\* UserMongooseSchema.methods.comparePassword
comparePassword(doc, candidate) == doc.password = Hash(candidate)

IsText(date) == "time" \in DOMAIN date

\* The phone rewrite of transformForMongoose.
TransformPhone(v) ==
  LET digits == StripNonDigits(v)
      a == IF StartsWith(digits, <<"6", "3">>) /\ Len(digits) >= 12
           THEN <<"0">> \o SubstringFrom(digits, 2)
           ELSE digits
      b == IF ~StartsWith(a, <<"0">>) /\ Len(a) = 10 THEN <<"0">> \o a ELSE a
  IN  SubstringTo(b, ContactLength)

transformForMongoose(data) ==
  [k \in (DOMAIN data) \cup {"form_id"} |->
     CASE k = "form_id" -> NULL
       [] k = "date_of_birth" -> IF IsText(data[k]) THEN ParseDate(data[k]) ELSE data[k]
       [] k = "contact_number" -> IF data[k] # <<>> THEN TransformPhone(data[k]) ELSE data[k]
       [] OTHER -> data[k]]

\* A registration that forces the account straight to Active.
RegistrationDataActive(userData) ==
  [form_id |-> NULL, is_verified |-> FALSE, is_email_verified |-> FALSE,
   status |-> "Active", role |-> "User"] @@ transformForMongoose(userData)

\* register: the data handed to UserModel.create, the five fields forced.
RegistrationData(userData) ==
  [form_id |-> NULL, is_verified |-> FALSE, is_email_verified |-> FALSE,
   status |-> "Pending", role |-> "User"] @@ transformForMongoose(userData)

\* The phone rewrite of the save hook.
SaveHookPhone(v) ==
  LET digits == StripNonDigits(v)
      a == IF ~StartsWith(digits, <<"0">>) /\ ~StartsWith(digits, <<"6", "3">>)
           THEN <<"0">> \o digits
           ELSE digits
      b == IF StartsWith(a, <<"6", "3">>) /\ Len(a) >= 12
           THEN <<"0">> \o SubstringFrom(a, 2)
           ELSE a
  IN  SubstringTo(b, ContactLength)

Field(data, key, default) == IF key \in DOMAIN data THEN data[key] ELSE default

\* The email path's setters: lowercase, trim.  Queries cast their values
\* through the same setters.
EmailSetters(v) == trim(toLowerCase(v))

\* The schema default of user_id: PDAO-<day>-<five random characters>.
DefaultUserId(now, rand) == <<"PDAO", DayNumber(Today(now)), rand>>

\* new UserModel(data): the schema's paths only, defaults for the missing ones.
NewDocument(data, id, rand, now) ==
  [_id |-> id,
   user_id |-> Field(data, "user_id", DefaultUserId(now, rand)),
   form_id |-> Field(data, "form_id", NULL),
   age |-> Field(data, "age", 0),
   date_of_birth |-> data.date_of_birth,
   contact_number |-> data.contact_number,
   email |-> EmailSetters(data.email),
   password |-> data.password,
   role |-> Field(data, "role", "User"),
   status |-> Field(data, "status", "Pending"),
   is_verified |-> Field(data, "is_verified", FALSE),
   is_email_verified |-> Field(data, "is_email_verified", FALSE),
   created_at |-> now,
   updated_at |-> now,
   __v |-> 0]

\* The contact_number validator of the schema.
ContactValidator(v) == Matches09(v) /\ Len(v) = ContactLength

\* Save hooks that leave the age as it is.
PreSaveKeepsAge(doc, passwordModified, time) ==
  [doc EXCEPT !.password = IF passwordModified THEN Hash(@) ELSE @,
              !.contact_number = IF @ # <<>> THEN SaveHookPhone(@) ELSE @]

\* Save hooks that hash the password on every save.
PreSaveAlwaysHashes(doc, passwordModified, time) ==
  [doc EXCEPT !.password = Hash(@),
              !.age = AgeAt(doc.date_of_birth, Today(time)),
              !.contact_number = IF @ # <<>> THEN SaveHookPhone(@) ELSE @]

\* The two save hooks, in order: hash a modified password; recompute the age
\* from date_of_birth as of the save, rewrite the phone.
PreSave(doc, passwordModified, time) ==
  [doc EXCEPT !.password = IF passwordModified THEN Hash(@) ELSE @,
              !.age = AgeAt(doc.date_of_birth, Today(time)),
              !.contact_number = IF @ # <<>> THEN SaveHookPhone(@) ELSE @]

\* The unique indexes of the collection.
UniqueKeys == {"user_id", "contact_number", "email"}

\* An insert that checks no unique index.
ViolatedKeysNone(us, doc) == {}

\* The unique indexes an insert of doc would violate.
ViolatedKeys(us, doc) ==
  {k \in UniqueKeys : \E i \in 1..Len(us) : us[i][k] = doc[k]}

\* A findOne that matches nothing.
FindOneNone(us, key, value) == 0

\* UserModel.findOne({key: value}): the _id of a match, 0 for null.
FindOne(us, key, value) ==
  IF \E i \in 1..Len(us) : us[i][key] = value
  THEN CHOOSE i \in 1..Len(us) : us[i][key] = value
  ELSE 0

\* ------------------------------------------------------------ tokens
\* jwt.sign({userId, role}, JWT_SECRET, {expiresIn: "7d"})
generateToken(userId, role, now) ==
  [kind |-> "jwt", userId |-> userId, role |-> role, iat |-> now,
   exp |-> now + TokenLifetimeDays, sig |-> "JWT_SECRET"]

\* ------------------------------------------------------------ responses
DuplicateMessage(field) ==
  CASE field = "email" ->
         "This email is already registered. Please use a different email or try logging in."
    [] field = "contact_number" ->
         "This contact number is already registered. Please use a different number."
    [] OTHER -> "Registration failed. Please try again."

\* A duplicate answered as a server error.
DuplicateResponseServerError(field) ==
  Response(500, [success |-> FALSE, message |-> "Registration failed. Please try again later."])

\* The 400 of both the pre-insert lookups and the duplicate-key catch.
DuplicateResponse(field) ==
  Response(400, [success |-> FALSE, message |-> DuplicateMessage(field), field |-> field])

RegisterResponseKeys ==
  {"_id", "user_id", "age", "date_of_birth", "contact_number", "email", "role", "status",
   "is_verified", "is_email_verified", "created_at", "updated_at"}

\* register: the userResponse literal.
RegisterUserResponse(doc) == Restrict(doc, RegisterResponseKeys)

RegisterSuccess(doc, token) ==
  Response(201,
    [success |-> TRUE,
     message |-> "Registration successful! Please check your email for verification instructions.",
     data |-> [user |-> RegisterUserResponse(doc), token |-> token]])

\* login: the userResponse literal.
LoginUserResponse(doc) == Restrict(doc, RegisterResponseKeys \cup {"form_id"})

LoginSuccess(doc, token) ==
  Response(200,
    [success |-> TRUE, message |-> "Login successful",
     data |-> [user |-> LoginUserResponse(doc), token |-> token]])

\* A 401 whose message tells which of the two was wrong.
InvalidCredentialsTelling(field) ==
  Response(401,
    [success |-> FALSE,
     message |-> IF field = "email" THEN "User not found" ELSE "Invalid password",
     field |-> field])

InvalidCredentials(field) ==
  Response(401, [success |-> FALSE, message |-> "Invalid email or password", field |-> field])

StatusRefusal(status) ==
  Response(403,
    [success |-> FALSE,
     message |-> IF status = "Suspended"
                 THEN "Your account has been suspended. Please contact support."
                 ELSE "Your account is inactive. Please contact support."])

SchemaValidationResponse(errors) ==
  Response(400, [success |-> FALSE, message |-> "Validation error", errors |-> errors])

\* ------------------------------------------------------------ state
VARIABLES
  users,    \* the users collection: the stored documents, in order of insertion
  pc,       \* per request slot: where its handler stands
  local,    \* per request slot: the handler's local values
  out,      \* the last response sent, with the request it answers
  issued,   \* the tokens handed out so far
  now       \* the server's clock, in days

\* The state of the address picker component and of the screen that shows it.
VARIABLES
  step,             \* "region", "province", "city" or "barangay"
  selectedRegion,   \* the selected item of each level, or NoItem for null
  selectedProvince,
  selectedCity,
  selectedBarangay,
  regions,          \* the option list of each level
  provinces,
  cities,
  barangays,
  searchQuery,      \* the text of the search bar
  isLoading,
  visible,          \* the prop visible: the screen's showAddressPicker
  initialAddress,   \* the prop initialAddress: the address the screen holds
  fetching,         \* the load calls awaiting the address package
  calls             \* the callbacks the last handler called, in order

pickerVars ==
  <<step, selectedRegion, selectedProvince, selectedCity, selectedBarangay,
    regions, provinces, cities, barangays, searchQuery, isLoading, visible,
    initialAddress, fetching, calls>>

serverVars == <<users, pc, local, out, issued, now>>

\* The client's auth store and what its persist middleware keeps of it.
VARIABLES
  auth,             \* the state of useAuthStore
  storage           \* the item "auth-storage" of AsyncStorage

authVars == <<auth, storage>>

vars == <<users, pc, local, out, issued, now, pickerVars, authVars>>

Idle == [op |-> "none"]

Reply(op, at, req, response) ==
  [op |-> op, at |-> at, req |-> req, status |-> response.status, body |-> response.body,
   next |-> FALSE, user |-> 0]

\* null, for a selection; AddressItem is {id, name}, and ref tells an object
\* of the list as it is now (0) from an object of a list since replaced (1).
NoItem == [id |-> <<>>, name |-> <<>>, ref |-> 0]

\* undefined, for the prop initialAddress.
NoAddress == [region |-> <<>>, province |-> <<>>, city |-> <<>>, barangay |-> <<>>]

\* useState: the initial values of the picker; the screen does not show it
\* and holds no address.
PickerInit ==
  /\ step = "region"
  /\ selectedRegion = NoItem
  /\ selectedProvince = NoItem
  /\ selectedCity = NoItem
  /\ selectedBarangay = NoItem
  /\ regions = {}
  /\ provinces = {}
  /\ cities = {}
  /\ barangays = {}
  /\ searchQuery = <<>>
  /\ isLoading = FALSE
  /\ visible = FALSE
  /\ initialAddress = NoAddress
  /\ fetching = {}
  /\ calls = <<>>

\* null, for the user of the store.
NoUser == [kind |-> "null"]

\* No item "auth-storage" was written yet.
NoStorage == [kind |-> "none"]

\* The state useAuthStore is created with.
InitialAuth ==
  [user |-> NoUser, token |-> NULL, isAuthenticated |-> FALSE,
   isLoading |-> FALSE, error |-> NULL]

AuthInit ==
  /\ auth = InitialAuth
  /\ storage = NoStorage

Init ==
  /\ users = <<>>
  /\ pc = [p \in Procs |-> "idle"]
  /\ local = [p \in Procs |-> Idle]
  /\ out = Reply("none", "none", <<>>, Response(0, <<>>))
  /\ issued = {}
  /\ now = 0
  /\ PickerInit
  /\ AuthInit

\* ------------------------------------------------------------ inputs
EmailA == <<"a", "@", "x">>
EmailAUpper == <<"A", "@", "X">>
EmailB == <<"b", "@", "x">>
EmailBad == <<"a", "x">>

Contact1 == <<"0", "9", "1", "7", "1", "2", "3", "4", "5", "6", "7">>
Contact2 == <<"0", "9", "1", "7", "1", "2", "3", "4", "5", "6", "8">>
ContactIntl == <<"6", "3", "9", "1", "7", "1", "2", "3", "4", "5", "6", "7">>
ContactLandline == <<"0", "8", "1", "7", "1", "2", "3", "4", "5", "6", "7">>

GoodPassword == "secret123"
ShortPassword == "short"
WrongPassword == "wrong-pass"

BirthDay == [y |-> 1990, m |-> 5, d |-> 15, time |-> ""]
BirthDayWithTime == [y |-> 1990, m |-> 5, d |-> 15, time |-> "T00:00:00Z"]
BirthDayFuture == [y |-> 2027, m |-> 1, d |-> 1, time |-> ""]
\* A birthday that falls within the days the clock covers.
BirthDaySoon == [y |-> 1990, m |-> 1, d |-> 8, time |-> ""]

RandomSuffixes == {"AAAAA", "BBBBB"}

Privileged ==
  [role |-> "Admin", status |-> "Active", is_verified |-> TRUE, is_email_verified |-> TRUE]

Extras ==
  {<<>>, Privileged, [form_id |-> NULL], [form_id |-> ""],
   [form_id |-> "FORM-20260101-ABCDE"], [form_id |-> NULL] @@ Privileged}

RegisterBody(email, contact, password, dob) ==
  [email |-> email, contact_number |-> contact, password |-> password,
   date_of_birth |-> dob]

\* Bodies every field rule accepts and that carry no other key.
PlainBodies ==
  {RegisterBody(e, c, GoodPassword, BirthDay) :
     e \in {EmailA, EmailB}, c \in {Contact1, Contact2}}

\* Bodies every field rule accepts, with and without extra keys.
WellFormedBodies ==
  PlainBodies
  \cup {RegisterBody(EmailAUpper, Contact1, GoodPassword, BirthDay)}
  \cup {RegisterBody(EmailA, Contact1, GoodPassword, BirthDay) @@ x : x \in Extras}
  \cup {RegisterBody(EmailB, Contact2, GoodPassword, BirthDay) @@ Privileged}

\* Bodies that break one or more field rules.
MalformedBodies ==
  {RegisterBody(EmailBad, Contact1, GoodPassword, BirthDay),
   RegisterBody(EmailA, ContactIntl, GoodPassword, BirthDay),
   RegisterBody(EmailA, ContactLandline, GoodPassword, BirthDay),
   RegisterBody(EmailA, Contact1, ShortPassword, BirthDay),
   RegisterBody(EmailA, Contact1, GoodPassword, BirthDayFuture),
   RegisterBody(EmailA, Contact1, GoodPassword, BirthDayWithTime),
   RegisterBody(EmailBad, Contact1, ShortPassword, BirthDay) @@ [form_id |-> NULL]}

RegisterBodies == WellFormedBodies \cup MalformedBodies

LoginBody(email, password) == [email |-> email, password |-> password]

\* Logins with well-formed fields.
PlainLogins ==
  {LoginBody(e, w) : e \in {EmailA, EmailB}, w \in {GoodPassword, WrongPassword}}

LoginBodies ==
  PlainLogins
  \cup {LoginBody(EmailAUpper, GoodPassword), LoginBody(EmailBad, GoodPassword),
        LoginBody(EmailA, "")}

\* The bodies of the requests that race.
RaceBodies == PlainBodies
RaceLogins == {LoginBody(EmailA, GoodPassword), LoginBody(EmailA, WrongPassword)}

\* The bodies of the requests made over time.
ClockBodies ==
  {RegisterBody(EmailA, Contact1, GoodPassword, BirthDay),
   RegisterBody(EmailB, Contact2, GoodPassword, BirthDaySoon) @@ [age |-> 99]}
ClockLogins ==
  {LoginBody(EmailA, GoodPassword), LoginBody(EmailB, GoodPassword),
   LoginBody(EmailA, WrongPassword)}

\* The bodies sent to the handlers of the user controller.
ControllerRegisterBodies ==
  {RegisterBody(EmailA, Contact1, GoodPassword, BirthDay),
   RegisterBody(EmailA, Contact1, GoodPassword, BirthDay) @@ Privileged,
   RegisterBody(EmailBad, Contact1, ShortPassword, BirthDay)}
ControllerLoginBodies ==
  {LoginBody(EmailA, GoodPassword), LoginBody(EmailBad, "")}

Serializers == {"toJSON", "toPlain", "sanitizeUser", "sanitizeUserForPublic"}

\* ------------------------------------------------------------ POST /register
\* registerValidator, validate, then register up to its first lookup.
RegisterStart(p, body) ==
  /\ pc[p] = "idle"
  /\ LET errors == registerValidator(body, now)
         clean == SanitizeRegister(body)
         issues == RegisterIssues(clean, now)
         userData == validateUserRegister(clean)
     IN  IF ValidationStops(errors)
         THEN /\ out' = Reply("register", "validate", body, validate(errors))
              /\ UNCHANGED <<pc, local>>
         ELSE IF issues # <<>>
         THEN /\ out' = Reply("register", "parse", body, ZodRejection(issues))
              /\ UNCHANGED <<pc, local>>
         ELSE IF FindOne(users, "email", EmailSetters(userData.email)) # 0
         THEN /\ out' = Reply("register", "lookup", body, DuplicateResponse("email"))
              /\ UNCHANGED <<pc, local>>
         ELSE /\ pc' = [pc EXCEPT ![p] = "reg_contact"]
              /\ local' = [local EXCEPT ![p] =
                             [op |-> "register", req |-> body, userData |-> userData]]
              /\ UNCHANGED out
  /\ UNCHANGED <<users, issued, now>>
  /\ UNCHANGED pickerVars
  /\ UNCHANGED authVars

\* register: the contact_number lookup.
RegisterContact(p) ==
  /\ pc[p] = "reg_contact"
  /\ IF FindOne(users, "contact_number", local[p].userData.contact_number) # 0
     THEN /\ out' = Reply("register", "lookup", local[p].req, DuplicateResponse("contact_number"))
          /\ pc' = [pc EXCEPT ![p] = "idle"]
          /\ local' = [local EXCEPT ![p] = Idle]
     ELSE /\ pc' = [pc EXCEPT ![p] = "reg_create"]
          /\ UNCHANGED <<local, out>>
  /\ UNCHANGED <<users, issued, now>>
  /\ UNCHANGED pickerVars
  /\ UNCHANGED authVars

\* register: UserModel.create, the token, the response, and the catch.
RegisterCreate(p, rand) ==
  /\ pc[p] = "reg_create"
  /\ LET data == RegistrationData(local[p].userData)
         fresh == NewDocument(data, Len(users) + 1, rand, now)
         doc == PreSave(fresh, TRUE, now)
         broken == ViolatedKeys(users, doc)
         token == generateToken(doc._id, doc.role, now)
     IN  IF ~ContactValidator(fresh.contact_number)
         THEN /\ out' = Reply("register", "catch", local[p].req,
                          SchemaValidationResponse(
                            <<Entry("contact_number",
                                "Phone number must start with 09 and have 11 digits total")>>))
              /\ UNCHANGED <<users, issued>>
         ELSE IF broken # {}
         THEN /\ \E key \in broken :
                   out' = Reply("register", "catch", local[p].req, DuplicateResponse(key))
              /\ UNCHANGED <<users, issued>>
         ELSE /\ users' = Append(users, doc)
              /\ issued' = issued \cup {token}
              /\ out' = Reply("register", "created", local[p].req, RegisterSuccess(doc, token))
  /\ pc' = [pc EXCEPT ![p] = "idle"]
  /\ local' = [local EXCEPT ![p] = Idle]
  /\ UNCHANGED now
  /\ UNCHANGED pickerVars
  /\ UNCHANGED authVars

\* ------------------------------------------------------------ POST /login
\* A login that lets every status through to the password check.
StatusRefusesNever(status) == FALSE

\* login: the two status checks that end the request with 403.
StatusRefuses(status) == status = "Suspended" \/ status = "Inactive"

\* A login that leaves a Pending account Pending.
StatusAfterLoginSame(status) == status

\* A login that also sets an Active account back to Pending.
StatusAfterLoginToggles(status) == IF status = "Pending" THEN "Active" ELSE "Pending"

\* login: a Pending account is set to Active.
StatusAfterLogin(status) == IF status = "Pending" THEN "Active" ELSE status

\* loginValidator, validate, then login up to user.save().
LoginStart(p, body) ==
  /\ pc[p] = "idle"
  /\ LET errors == loginValidator(body)
         clean == SanitizeLogin(body)
         issues == LoginIssues(clean)
         id == FindOne(users, "email", EmailSetters(clean.email))
     IN  IF ValidationStops(errors)
         THEN /\ out' = Reply("login", "validate", body, validate(errors))
              /\ UNCHANGED <<pc, local>>
         ELSE IF issues # <<>>
         THEN /\ out' = Reply("login", "parse", body, ZodRejection(issues))
              /\ UNCHANGED <<pc, local>>
         ELSE IF id = 0
         THEN /\ out' = Reply("login", "lookup", body, InvalidCredentials("email"))
              /\ UNCHANGED <<pc, local>>
         ELSE IF StatusRefuses(users[id].status)
         THEN /\ out' = Reply("login", "status", body, StatusRefusal(users[id].status))
              /\ UNCHANGED <<pc, local>>
         ELSE IF ~comparePassword(users[id], clean.password)
         THEN /\ out' = Reply("login", "password", body, InvalidCredentials("password"))
              /\ UNCHANGED <<pc, local>>
         ELSE /\ pc' = [pc EXCEPT ![p] = "login_save"]
              /\ local' = [local EXCEPT ![p] =
                             [op |-> "login", req |-> body,
                              doc |-> [users[id] EXCEPT
                                         !.status = StatusAfterLogin(@),
                                         !.updated_at = now],
                              modified |->
                                {"updated_at"} \cup
                                (IF StatusAfterLogin(users[id].status) # users[id].status
                                 THEN {"status"} ELSE {})]]
              /\ UNCHANGED out
  /\ UNCHANGED <<users, issued, now>>
  /\ UNCHANGED pickerVars
  /\ UNCHANGED authVars

\* user.save(): the save hooks run on the document in memory; the paths the
\* handler and the hooks changed are written over the stored document, and
\* the timestamps option sets updated_at to the time of the save.
SavedDocument(stored, doc, modified, time) ==
  LET hooked == PreSave(doc, FALSE, time)
  IN  [k \in DOMAIN stored |->
         IF k = "updated_at" THEN time
         ELSE IF k \in modified \/ hooked[k] # doc[k] THEN hooked[k]
         ELSE stored[k]]

\* login: user.save(), the token and the response.
LoginSave(p) ==
  /\ pc[p] = "login_save"
  /\ LET id == local[p].doc._id
         saved == SavedDocument(users[id], local[p].doc, local[p].modified, now)
         doc == [PreSave(local[p].doc, FALSE, now) EXCEPT !.updated_at = saved.updated_at]
         token == generateToken(doc._id, doc.role, now)
     IN  /\ users' = [users EXCEPT ![id] = saved]
         /\ issued' = issued \cup {token}
         /\ out' = Reply("login", "saved", local[p].req, LoginSuccess(doc, token))
  /\ pc' = [pc EXCEPT ![p] = "idle"]
  /\ local' = [local EXCEPT ![p] = Idle]
  /\ UNCHANGED now
  /\ UNCHANGED pickerVars
  /\ UNCHANGED authVars

\* register and login: an awaited storage call rejects with an error that is
\* neither a duplicate key nor a validation error, and the catch answers 500.
StorageThrows(p) ==
  /\ pc[p] \in {"reg_contact", "reg_create", "login_save"}
  /\ out' = Reply(local[p].op, "catch", local[p].req,
               Response(500,
                 [success |-> FALSE,
                  message |-> IF local[p].op = "register"
                              THEN "Registration failed. Please try again later."
                              ELSE "Login failed. Please try again later."]))
  /\ pc' = [pc EXCEPT ![p] = "idle"]
  /\ local' = [local EXCEPT ![p] = Idle]
  /\ UNCHANGED <<users, issued, now>>
  /\ UNCHANGED pickerVars
  /\ UNCHANGED authVars

\* ------------------------------------------------------------ environment
\* The administrative process: it moves an account to Suspended or Inactive.
AdminSetStatus(id, status) ==
  /\ id \in 1..Len(users)
  /\ status \in {"Suspended", "Inactive"}
  /\ users[id].status # status
  /\ users' = [users EXCEPT ![id].status = status]
  /\ UNCHANGED <<pc, local, out, issued, now>>
  /\ UNCHANGED pickerVars
  /\ UNCHANGED authVars

\* Time passes.
Tick ==
  /\ now + TickDays <= MaxNow
  /\ now' = now + TickDays
  /\ UNCHANGED <<users, pc, local, out, issued>>
  /\ UNCHANGED pickerVars
  /\ UNCHANGED authVars

\* ------------------------------------------------------------ authenticate
EmptyText == [kind |-> "empty"]
GarbageText == [kind |-> "text"]
NoHeader == [kind |-> "absent"]

\* req.header("Authorization")?.replace("Bearer ", "")
HeaderToken(header) == IF header = NoHeader THEN EmptyText ELSE header.credentials

\* jwt.verify: the error it throws, "none" when it returns the payload.
verifyToken(token, time) ==
  IF token.kind # "jwt" THEN "JsonWebTokenError"
  ELSE IF token.sig # "JWT_SECRET" THEN "JsonWebTokenError"
  ELSE IF time >= token.exp THEN "TokenExpiredError"
  ELSE "none"

\* error instanceof class: jsonwebtoken derives TokenExpiredError from
\* JsonWebTokenError.
InstanceOf(error, class) ==
  \/ error = class
  \/ error = "TokenExpiredError" /\ class = "JsonWebTokenError"

\* authenticate: the catch block.
AuthenticateCatch(error) ==
  IF InstanceOf(error, "JsonWebTokenError")
  THEN Response(401, [success |-> FALSE, message |-> "Invalid token"])
  ELSE IF InstanceOf(error, "TokenExpiredError")
  THEN Response(401, [success |-> FALSE, message |-> "Token expired"])
  ELSE Response(500, [success |-> FALSE, message |-> "Authentication error"])

StatusLower(status) ==
  CASE status = "Pending" -> "pending"
    [] status = "Suspended" -> "suspended"
    [] status = "Inactive" -> "inactive"
    [] OTHER -> "active"

AccountRefusal(status) ==
  Response(403,
    [success |-> FALSE,
     message |-> "Account is " \o StatusLower(status) \o ". Please contact support."])

\* The Authorization headers a client can send: none, or any text it holds,
\* with or without the Bearer prefix.
Headers ==
  {NoHeader} \cup
  {[kind |-> "header", scheme |-> scheme, credentials |-> c] :
     scheme \in {"Bearer ", ""},
     c \in issued \cup {[t EXCEPT !.sig = "other"] : t \in issued}
             \cup {EmptyText, GarbageText}}

\* An authenticate without the check of the status of the user.
authenticateAnyStatus(header) ==
  /\ LET token == HeaderToken(header)
         error == verifyToken(token, now)
         id == IF token.userId \in 1..Len(users) THEN token.userId ELSE 0
     IN  IF token = EmptyText
         THEN out' = Reply("authenticate", "token", header,
                       Response(401, [success |-> FALSE,
                                      message |-> "Access denied. No token provided."]))
         ELSE IF error # "none"
         THEN out' = Reply("authenticate", "catch", header, AuthenticateCatch(error))
         ELSE IF id = 0
         THEN out' = Reply("authenticate", "user", header,
                       Response(401, [success |-> FALSE, message |-> "User not found"]))
         ELSE out' = [Reply("authenticate", "next", header, Response(0, <<>>))
                        EXCEPT !.next = TRUE, !.user = id]
  /\ UNCHANGED <<users, pc, local, issued, now>>
  /\ UNCHANGED pickerVars
  /\ UNCHANGED authVars

authenticate(header) ==
  /\ LET token == HeaderToken(header)
         error == verifyToken(token, now)
         id == IF token.userId \in 1..Len(users) THEN token.userId ELSE 0
     IN  IF token = EmptyText
         THEN out' = Reply("authenticate", "token", header,
                       Response(401, [success |-> FALSE,
                                      message |-> "Access denied. No token provided."]))
         ELSE IF error # "none"
         THEN out' = Reply("authenticate", "catch", header, AuthenticateCatch(error))
         ELSE IF id = 0
         THEN out' = Reply("authenticate", "user", header,
                       Response(401, [success |-> FALSE, message |-> "User not found"]))
         ELSE IF users[id].status # "Active"
         THEN out' = Reply("authenticate", "status", header, AccountRefusal(users[id].status))
         ELSE out' = [Reply("authenticate", "next", header, Response(0, <<>>))
                        EXCEPT !.next = TRUE, !.user = id]
  /\ UNCHANGED <<users, pc, local, issued, now>>
  /\ UNCHANGED pickerVars
  /\ UNCHANGED authVars

\* ------------------------------------------------------------ serializers
Without(record, keys) == [k \in (DOMAIN record) \ keys |-> record[k]]

\* A toJSON that returns toObject() as it is.
toJSONWhole(doc) == doc

\* UserMongooseSchema.methods.toJSON
toJSON(doc) == Without(doc, {"password", "__v"})

\* DataTransformer.toPlain
toPlain(document) == Without(document, {"__v", "password"})

\* HybridValidator.sanitizeUser
sanitizeUser(user) == Without(user, {"password", "__v"})

\* The keys of UserPublicSchema: UserSchema without password, created_by,
\* updated_by.
PublicKeys ==
  {"_id", "user_id", "form_id", "age", "date_of_birth", "contact_number", "email",
   "role", "status", "is_verified", "is_email_verified"}

\* UserPublicSchema.parse: whether it returns, or throws a ZodError.
PublicParses(user, time) ==
  /\ IsText(user.date_of_birth)
  /\ MatchesYMD(user.date_of_birth)
  /\ DayNumber(user.date_of_birth) <= DayNumber(Today(time))
  /\ Matches09(user.contact_number)
  /\ isEmail(user.email)

\* What it returns: the schema's keys, the defaults for the missing ones.
PublicParse(user) ==
  Restrict(user, PublicKeys) @@
  [form_id |-> NULL, age |-> 0, role |-> "User", status |-> "Pending",
   is_verified |-> FALSE, is_email_verified |-> FALSE]

\* sanitizeUserForPublic: its own computation of the age, 0 without a date
\* of birth.
PublicAge(user, today) ==
  IF "date_of_birth" \notin DOMAIN user
  THEN 0
  ELSE LET birthDate == user.date_of_birth
           age == today.y - birthDate.y
           monthDiff == today.m - birthDate.m
       IN  IF monthDiff < 0 \/ (monthDiff = 0 /\ today.d < birthDate.d)
           THEN age - 1
           ELSE age

\* age_display holds the number of the text "<age> years"; JSON drops
\* is_pwd_verified when user.is_verified is undefined.
sanitizeUserForPublic(user, time) ==
  [age_display |-> PublicAge(user, Today(time))]
  @@ (IF "is_verified" \in DOMAIN user
      THEN [is_pwd_verified |-> user.is_verified] ELSE <<>>)
  @@ PublicParse(user)

\* The documents and plain objects the serializers are applied to.
Serializable ==
  {users[i] : i \in 1..Len(users)}
  \cup {validateUserRegister(b) : b \in {RegisterBody(EmailA, Contact1, GoodPassword, BirthDay)}}

Serialize(which, user) ==
  /\ which = "toJSON" => "_id" \in DOMAIN user
  /\ out' =
       Reply(which, "return", <<>>,
         CASE which = "toJSON" -> Response(0, toJSON(user))
           [] which = "toPlain" -> Response(0, toPlain(user))
           [] which = "sanitizeUser" -> Response(0, sanitizeUser(user))
           [] OTHER ->
                IF PublicParses(user, now)
                THEN Response(0, sanitizeUserForPublic(user, now))
                ELSE Response(-1, <<>>))
  /\ UNCHANGED <<users, pc, local, issued, now>>
  /\ UNCHANGED pickerVars
  /\ UNCHANGED authVars

\* ------------------------------------------------------------ user controller
\* registerUser: parse, sanitize, answer.
registerUser(body) ==
  /\ LET issues == RegisterIssues(body, now)
         userData == validateUserRegister(body)
     IN  out' =
           Reply("registerUser", "handler", <<>>,
             IF issues # <<>>
             THEN Response(400, [success |-> FALSE, message |-> "Validation error",
                                 errors |-> issues])
             ELSE Response(201, [success |-> TRUE,
                                 message |-> "User registered successfully",
                                 data |-> sanitizeUserForPublic(userData, now)]))
  /\ UNCHANGED <<users, pc, local, issued, now>>
  /\ UNCHANGED pickerVars
  /\ UNCHANGED authVars

\* loginUser: parse, answer with the email.
loginUser(body) ==
  /\ LET issues == LoginIssues(body)
     IN  out' =
           Reply("loginUser", "handler", <<>>,
             IF issues # <<>>
             THEN Response(400, [success |-> FALSE, message |-> "Validation error",
                                 errors |-> issues])
             ELSE Response(200, [success |-> TRUE, message |-> "Login successful",
                                 token |-> "jwt_token_here",
                                 user |-> [email |-> body.email]]))
  /\ UNCHANGED <<users, pc, local, issued, now>>
  /\ UNCHANGED pickerVars
  /\ UNCHANGED authVars

\* The keys UserUpdateSchema keeps: the user's fields without password,
\* user_id and form_id, and the two keys of a password change.
UpdateKeys ==
  (PublicKeys \ {"user_id", "form_id"}) \cup {"current_password", "new_password"}

UpdateIssues(body) ==
  (IF "email" \in DOMAIN body /\ ~isEmail(body.email)
   THEN <<Entry("email", "Invalid email format")>> ELSE <<>>)
  \o (IF "new_password" \in DOMAIN body /\ Len(body.new_password) < PasswordMinLength
      THEN <<Entry("new_password", "New password must be at least 8 characters")>>
      ELSE <<>>)

UpdateBodies ==
  {[email |-> EmailA],
   [email |-> EmailBad],
   [email |-> EmailA, password |-> GoodPassword],
   [current_password |-> GoodPassword, new_password |-> "secret456"],
   [current_password |-> GoodPassword, new_password |-> ShortPassword]}

\* updateUser: parse, answer with the parsed data.
updateUser(body) ==
  /\ LET issues == UpdateIssues(body)
     IN  out' =
           Reply("updateUser", "handler", <<>>,
             IF issues # <<>>
             THEN Response(400, [success |-> FALSE, message |-> "Validation error",
                                 errors |-> issues])
             ELSE Response(200, [success |-> TRUE,
                                 message |-> "User updated successfully",
                                 data |-> Restrict(body, UpdateKeys)]))
  /\ UNCHANGED <<users, pc, local, issued, now>>
  /\ UNCHANGED pickerVars
  /\ UNCHANGED authVars

\* The messages of errors thrown inside a handler's try block that are not
\* ZodErrors.
ThrownMessages == {"connect ECONNREFUSED 127.0.0.1:27017", "Converting circular structure to JSON"}

\* The last branch of the catch of registerUser, loginUser and updateUser.
ControllerCatch(handler, message) ==
  CASE handler = "registerUser" ->
         Response(500, [success |-> FALSE, message |-> "Server error",
                        error |-> message])
    [] handler = "loginUser" ->
         Response(401, [success |-> FALSE, message |-> "Invalid credentials",
                        error |-> message])
    [] handler = "updateUser" ->
         Response(500, [success |-> FALSE, message |-> "Update failed",
                        error |-> message])

\* registerUser, loginUser, updateUser: a statement of the try block throws
\* an error that is not a ZodError, and the catch answers.
ControllerThrows(handler, message) ==
  /\ out' = Reply(handler, "catch", [thrown |-> message],
               ControllerCatch(handler, message))
  /\ UNCHANGED <<users, pc, local, issued, now>>
  /\ UNCHANGED pickerVars
  /\ UNCHANGED authVars

\* ------------------------------------------------------------ age
\* The empty text of a date field that was not filled in.
NoDateText == [text |-> ""]

\* A calculateAge that looks at the year and the month only.
calculateAgeByMonth(dob, today) ==
  IF dob = NoDateText
  THEN 0
  ELSE IF today.m - dob.m < 0 THEN today.y - dob.y - 1 ELSE today.y - dob.y

\* The client's calculateAge: 0 for an empty text.
calculateAge(dob, today) ==
  IF dob = NoDateText
  THEN 0
  ELSE LET birthDate == ParseDate(dob)
           age == today.y - birthDate.y
           monthDiff == today.m - birthDate.m
       IN  IF monthDiff < 0 \/ (monthDiff = 0 /\ today.d < birthDate.d)
           THEN age - 1
           ELSE age

\* The refinement of the client's UserSchema: the age sent is 0 or the age
\* of the date of birth.
AgeRefinement(data, today) ==
  LET dob == ParseDate(data.date_of_birth)
      age == today.y - dob.y
      monthDiff == today.m - dob.m
      expected == IF monthDiff < 0 \/ (monthDiff = 0 /\ today.d < dob.d)
                  THEN age - 1
                  ELSE age
  IN  data.age = 0 \/ data.age = expected

Day(y, m, d) == [y |-> y, m |-> m, d |-> d, time |-> ""]

\* Dates of birth, one of them a 29 February.
BirthDates ==
  {Day(1990, 5, 15), Day(1992, 2, 29), Day(1990, 1, 1), Day(1990, 12, 31),
   Day(2026, 2, 28)}

\* Days on which the age is asked for: around the birthdays, the end of
\* February of a year that has no 29th and of one that has.
Todays ==
  {[y |-> 2026, m |-> 5, d |-> 14], [y |-> 2026, m |-> 5, d |-> 15],
   [y |-> 2026, m |-> 5, d |-> 16], [y |-> 2026, m |-> 2, d |-> 28],
   [y |-> 2026, m |-> 3, d |-> 1], [y |-> 2028, m |-> 2, d |-> 28],
   [y |-> 2028, m |-> 2, d |-> 29], [y |-> 2026, m |-> 12, d |-> 30],
   [y |-> 2026, m |-> 12, d |-> 31], [y |-> 2027, m |-> 1, d |-> 1]}

\* Ages a client sends along.
AgesSent == {0, 33, 34, 35, 36}

AgeQuestion(dob, today) == [date_of_birth |-> dob, today |-> today]

\* The save hook computes the age of a document.
SaveHookAge(dob, today) ==
  /\ DayNumber(dob) <= DayNumber(today)
  /\ out' = Reply("saveHook", "return", AgeQuestion(dob, today),
               Response(0, [age |-> AgeAt(ParseDate(dob), today)]))
  /\ UNCHANGED <<users, pc, local, issued, now>>
  /\ UNCHANGED pickerVars
  /\ UNCHANGED authVars

\* sanitizeUserForPublic computes the age of a user.
SanitizeAge(dob, today) ==
  /\ DayNumber(dob) <= DayNumber(today)
  /\ out' = Reply("sanitizeUserForPublic", "return", AgeQuestion(dob, today),
               Response(0, [age |-> PublicAge([date_of_birth |-> ParseDate(dob)], today)]))
  /\ UNCHANGED <<users, pc, local, issued, now>>
  /\ UNCHANGED pickerVars
  /\ UNCHANGED authVars

\* The client computes the age of the date in its form.
ClientAge(dob, today) ==
  /\ DayNumber(dob) <= DayNumber(today)
  /\ out' = Reply("calculateAge", "return", AgeQuestion(dob, today),
               Response(0, [age |-> calculateAge(dob, today)]))
  /\ UNCHANGED <<users, pc, local, issued, now>>
  /\ UNCHANGED pickerVars
  /\ UNCHANGED authVars

\* The client's schema checks an age against a date of birth.
RefineAge(dob, age, today) ==
  /\ DayNumber(dob) <= DayNumber(today)
  /\ out' = Reply("refine", "return", AgeQuestion(dob, today) @@ [age |-> age],
               Response(0, [accepted |->
                              AgeRefinement([date_of_birth |-> dob, age |-> age], today)]))
  /\ UNCHANGED <<users, pc, local, issued, now>>
  /\ UNCHANGED pickerVars
  /\ UNCHANGED authVars

\* ------------------------------------------------------------ specifications
\* One client sending one request after the other, with every kind of body;
\* the administrative process runs beside it.
Next ==
  \/ \E body \in RegisterBodies : RegisterStart("p1", body)
  \/ RegisterContact("p1")
  \/ \E rand \in RandomSuffixes : RegisterCreate("p1", rand)
  \/ \E body \in LoginBodies : LoginStart("p1", body)
  \/ LoginSave("p1")
  \/ StorageThrows("p1")
  \/ \E id \in 1..Len(users), status \in {"Suspended", "Inactive"} :
       AdminSetStatus(id, status)
  \/ \E which \in Serializers, user \in Serializable : Serialize(which, user)
  \/ \E body \in ControllerRegisterBodies : registerUser(body)
  \/ \E body \in ControllerLoginBodies : loginUser(body)
  \/ \E body \in UpdateBodies : updateUser(body)
  \/ \E handler \in {"registerUser", "loginUser", "updateUser"},
        message \in ThrownMessages : ControllerThrows(handler, message)

Spec == Init /\ [][Next]_vars

\* Requests in flight at the same time, their storage calls interleaved.
NextRace ==
  \/ \E p \in Procs, body \in RaceBodies : RegisterStart(p, body)
  \/ \E p \in Procs : RegisterContact(p)
  \/ \E p \in Procs, rand \in RandomSuffixes : RegisterCreate(p, rand)
  \/ \E p \in Procs, body \in RaceLogins : LoginStart(p, body)
  \/ \E p \in Procs : LoginSave(p)
  \/ \E id \in 1..Len(users), status \in {"Suspended", "Inactive"} :
       AdminSetStatus(id, status)

RaceSpec == Init /\ [][NextRace]_vars

\* One client over time: the tokens it was given, presented later.
NextClock ==
  \/ \E body \in ClockBodies : RegisterStart("p1", body)
  \/ RegisterContact("p1")
  \/ \E rand \in RandomSuffixes : RegisterCreate("p1", rand)
  \/ \E body \in ClockLogins : LoginStart("p1", body)
  \/ LoginSave("p1")
  \/ \E id \in 1..Len(users), status \in {"Suspended", "Inactive"} :
       AdminSetStatus(id, status)
  \/ Tick
  \/ \E header \in Headers : authenticate(header)

ClockSpec == Init /\ [][NextClock]_vars

\* ------------------------------------------------------------ properties
\* The stored account with this email, compared without regard to case;
\* 0 for none.
AccountOf(email) ==
  IF \E i \in 1..Len(users) : users[i].email = toLowerCase(email)
  THEN CHOOSE i \in 1..Len(users) : users[i].email = toLowerCase(email)
  ELSE 0

\* Whether an object of a response has the key.
Has(object, key) == object # <<>> /\ key \in DOMAIN object

\* This step sends a response of the handler op.
Answers(op) == out' # out /\ out'.op = op

\* Whether a response carries a token.
CarriesToken(body) ==
  \/ Has(body, "token")
  \/ Has(body, "data") /\ Has(body.data, "token")

\* C1: every record a registration creates has form_id null, status
\* "Pending", role "User", is_verified false and is_email_verified false,
\* whatever the request body holds under those keys.
C1_ForcedFields ==
  [][Len(users') > Len(users) =>
       LET created == users'[Len(users')]
       IN  /\ created.form_id = NULL
           /\ created.status = "Pending"
           /\ created.role = "User"
           /\ created.is_verified = FALSE
           /\ created.is_email_verified = FALSE]_vars

\* A registration that asked for role Admin, status Active and both flags
\* true was answered 201.
C1_Witness ==
  /\ out.op = "register"
  /\ out.status = 201
  /\ Has(out.req, "role") /\ out.req.role = "Admin"
  /\ out.req.status = "Active"
  /\ out.req.is_verified = TRUE
  /\ out.req.is_email_verified = TRUE
  /\ out.body.data.user.role = "User"

\* C2: a login for a stored account whose status is Suspended or Inactive
\* is answered 403, with the right password and with a wrong one alike; the
\* response carries no token, no token is issued and the stored record is
\* left as it was.
C2_RefusedLogin ==
  [][/\ (/\ Answers("login")
          /\ out'.at \notin {"saved", "catch"}
          /\ out'.req.password # ""
          /\ AccountOf(out'.req.email) # 0
          /\ users[AccountOf(out'.req.email)].status \in {"Suspended", "Inactive"})
         => /\ out'.status = 403
            /\ ~CarriesToken(out'.body)
            /\ issued' = issued
            /\ users' = users
            /\ \A p \in Procs : pc[p] = "idle" => pc'[p] = "idle"
     /\ \A p \in Procs :
          (pc[p] = "idle" /\ pc'[p] = "login_save")
          => users[AccountOf(local'[p].req.email)].status
               \notin {"Suspended", "Inactive"}]_vars

\* A login with the right password for a suspended account was answered 403.
C2_Witness ==
  /\ out.op = "login"
  /\ out.status = 403
  /\ AccountOf(out.req.email) # 0
  /\ users[AccountOf(out.req.email)].status = "Suspended"
  /\ comparePassword(users[AccountOf(out.req.email)], out.req.password)

\* C3: no response of register or login, on any path, and no output of the
\* user serializers (toJSON, toPlain, sanitizeUser, sanitizeUserForPublic)
\* has a key named password, at the top level, under data, under a user
\* object or in an entry of errors.
C3_NoPasswordKey ==
  LET body == out.body
  IN  /\ ~Has(body, "password")
      /\ Has(body, "data") =>
           /\ ~Has(body.data, "password")
           /\ Has(body.data, "user") => ~Has(body.data.user, "password")
      /\ Has(body, "user") => ~Has(body.user, "password")
      /\ Has(body, "errors") =>
           \A i \in 1..Len(body.errors) : ~Has(body.errors[i], "password")

\* A login was answered 200 with the user object of an account whose stored
\* record holds a password.
C3_Witness ==
  /\ out.op = "login"
  /\ out.status = 200
  /\ Has(out.body.data.user, "email")
  /\ Has(users[out.body.data.user._id], "password")

\* C4: after any sequence of register and login requests, registrations in
\* flight at the same time included, no two stored records have the same
\* email and no two have the same contact_number.
C4_UniqueEmailAndContact ==
  \A i, j \in 1..Len(users) :
    i # j => /\ users[i].email # users[j].email
             /\ users[i].contact_number # users[j].contact_number

\* Two records are stored, and a registration that had passed both lookups
\* was refused at the insert for its contact_number.
C4_Witness ==
  /\ Len(users) = 2
  /\ out.op = "register"
  /\ out.at = "catch"
  /\ out.body.field = "contact_number"
  /\ \E i \in 1..Len(users) : users[i].contact_number = out.req.contact_number

\* The keys among email and contact_number under which a stored record has
\* the value of the request.
Taken(req) ==
  {k \in {"email", "contact_number"} :
     \E i \in 1..Len(users) :
       users[i][k] = IF k = "email" THEN toLowerCase(req.email) ELSE req[k]}

\* The generated user_id is that of a stored record.
UserIdTaken(rand) ==
  \E i \in 1..Len(users) : users[i].user_id = DefaultUserId(now, rand)

\* The 400 that names the field of a duplicate.
FieldAnswer(field) ==
  [success |-> FALSE,
   message |->
     IF field = "email"
     THEN "This email is already registered. Please use a different email or try logging in."
     ELSE "This contact number is already registered. Please use a different number.",
   field |-> field]

\* C5: a registration that passed both duplicate lookups and whose email or
\* contact_number is stored by the time it inserts (another registration
\* inserted in between) adds no record and is answered 400 with the field
\* that collides and the text of the pre-insert check, never 500; one whose
\* values are still free creates the record and is answered 201. The case is
\* a collision on email or contact_number alone: the generated user_id is
\* free.
C5_RaceLoser ==
  [][\A p \in Procs, rand \in RandomSuffixes :
       (/\ pc[p] = "reg_create"
        /\ pc'[p] = "idle"
        /\ ~UserIdTaken(rand)
        /\ RegisterCreate(p, rand))
       => IF Taken(local[p].req) # {}
          THEN /\ users' = users
               /\ issued' = issued
               /\ out'.status = 400
               /\ out'.body.field \in Taken(local[p].req)
               /\ out'.body = FieldAnswer(out'.body.field)
          ELSE /\ Len(users') = Len(users) + 1
               /\ out'.status = 201]_vars

\* One record is stored and a registration with its email, having passed the
\* lookups, was refused at the insert.
C5_Witness ==
  /\ Len(users) = 1
  /\ out.op = "register"
  /\ out.at = "catch"
  /\ out.status = 400
  /\ out.body.field = "email"
  /\ users[1].email = toLowerCase(out.req.email)

\* A registration body that passes registerValidator and UserRegisterSchema.
WellFormedRegister(req) ==
  /\ registerValidator(req, now) = <<>>
  /\ RegisterIssues(SanitizeRegister(req), now) = <<>>

\* A login body that passes loginValidator and UserLoginSchema.
WellFormedLogin(req) ==
  /\ loginValidator(req) = <<>>
  /\ LoginIssues(SanitizeLogin(req)) = <<>>

\* This step answers 400 naming the field, creates nothing and issues nothing.
RefusedAsDuplicate(field) ==
  /\ out'.status = 400
  /\ out'.body = FieldAnswer(field)
  /\ users' = users
  /\ issued' = issued

\* C6: a well-formed registration whose email is that of a stored user is
\* answered 400 with field "email", also when its contact_number is stored
\* too; one whose contact_number alone is stored is answered 400 with field
\* "contact_number"; neither creates a record or is given a token, neither
\* gets past its lookup, and a token is issued by register only in the step
\* that creates the record the token names. Storage is taken to answer.
C6_DuplicateRegistration ==
  [][/\ (/\ Answers("register")
          /\ WellFormedRegister(out'.req)
          /\ \A p \in Procs : ~StorageThrows(p))
         => /\ "email" \in Taken(out'.req) => RefusedAsDuplicate("email")
            /\ Taken(out'.req) = {"contact_number"}
                 => RefusedAsDuplicate("contact_number")
     /\ \A p \in Procs :
          /\ (pc[p] = "idle" /\ pc'[p] = "reg_contact")
               => "email" \notin Taken(local'[p].req)
          /\ (pc[p] = "reg_contact" /\ pc'[p] = "reg_create")
               => Taken(local[p].req) = {}
     /\ (issued' # issued /\ out'.op = "register")
         => /\ Len(users') = Len(users) + 1
            /\ issued' \ issued = {out'.body.data.token}
            /\ out'.body.data.token.userId = users'[Len(users')]._id]_vars

\* A registration whose email and contact_number are both stored was
\* answered 400 naming email.
C6_Witness ==
  /\ out.op = "register"
  /\ out.at = "lookup"
  /\ out.status = 400
  /\ out.body.field = "email"
  /\ Taken(out.req) = {"email", "contact_number"}

\* This step answers 401 naming the field, with the one message, and writes
\* nothing.
RefusedCredentials(field) ==
  /\ out'.status = 401
  /\ out'.body =
       [success |-> FALSE, message |-> "Invalid email or password", field |-> field]
  /\ users' = users
  /\ issued' = issued

\* C7: a well-formed login with an email no stored user has is answered 401
\* with field "email"; one with a wrong password for a Pending or Active
\* account is answered 401 with field "password"; the two bodies have the
\* same status and message and differ in field only; neither is given a
\* token, changes a record or reaches user.save().
C7_InvalidCredentials ==
  [][/\ (/\ Answers("login")
          /\ out'.at \notin {"saved", "catch"}
          /\ WellFormedLogin(out'.req))
         => LET id == AccountOf(out'.req.email)
            IN  /\ id = 0 => RefusedCredentials("email")
                /\ (/\ id # 0
                    /\ users[id].status \in {"Pending", "Active"}
                    /\ ~comparePassword(users[id], out'.req.password))
                   => RefusedCredentials("password")
     /\ \A p \in Procs :
          (pc[p] = "idle" /\ pc'[p] = "login_save")
          => /\ AccountOf(local'[p].req.email) # 0
             /\ comparePassword(users[AccountOf(local'[p].req.email)],
                                local'[p].req.password)]_vars

\* A login with a wrong password for an Active account was answered 401
\* naming password.
C7_Witness ==
  /\ out.op = "login"
  /\ out.status = 401
  /\ out.body.field = "password"
  /\ AccountOf(out.req.email) # 0
  /\ users[AccountOf(out.req.email)].status = "Active"
  /\ ~comparePassword(users[AccountOf(out.req.email)], out.req.password)

\* C9: a body sent to POST /register that has the key form_id, with any
\* value (null, the empty text, an identifier), is answered 400 with the
\* message "Invalid registration data" and the one error entry for form_id,
\* whatever else is wrong with it; it creates no record, is given no token
\* and never reaches the handler's lookups.
C9_FormIdRejected ==
  [][/\ (Answers("register") /\ Has(out'.req, "form_id"))
         => /\ out'.status = 400
            /\ out'.body =
                 [success |-> FALSE,
                  message |-> "Invalid registration data",
                  errors |->
                    <<[field |-> "form_id",
                       message |->
                         "form_id is automatically generated and cannot be provided"]>>]
            /\ users' = users
            /\ issued' = issued
     /\ \A p \in Procs :
          pc'[p] # "idle" => ~Has(local'[p].req, "form_id")]_vars

\* A registration that carried form_id: null, and a bad email and a short
\* password besides, was answered 400.
C9_Witness ==
  /\ out.op = "register"
  /\ out.status = 400
  /\ Has(out.req, "form_id")
  /\ out.req.form_id = NULL
  /\ ~isEmail(out.req.email)

\* C8: a well-formed login with the right password for a Pending or Active
\* account is not refused; its save is answered 200 with a token that was
\* issued and holds the account's _id and stored role; the save sets
\* updated_at to the time of the save and writes nothing but status,
\* updated_at and the recomputed age; a Pending account is stored Active, an Active one stays
\* Active, and the status in the response is the stored one.
C8_SuccessfulLogin ==
  [][/\ (/\ Answers("login")
          /\ out'.at \notin {"saved", "catch"}
          /\ WellFormedLogin(out'.req)
          /\ AccountOf(out'.req.email) # 0)
         => ~(/\ users[AccountOf(out'.req.email)].status \in {"Pending", "Active"}
              /\ comparePassword(users[AccountOf(out'.req.email)], out'.req.password))
     /\ \A p \in Procs :
          (pc[p] = "login_save" /\ pc'[p] = "idle")
          => LET id == AccountOf(local[p].req.email)
                 token == out'.body.data.token
             IN  /\ out'.op = "login"
                 /\ out'.req = local[p].req
                 /\ out'.status = 200
                 /\ token \in issued'
                 /\ token.userId = users[id]._id
                 /\ token.role = users[id].role
                 /\ users'[id].updated_at = now
                 /\ out'.body.data.user.updated_at = now
                 /\ users[id].status \in {"Pending", "Active"}
                      => /\ users'[id].status = "Active"
                         /\ out'.body.data.user.status = "Active"
                 /\ \A k \in (DOMAIN users[id]) \ {"status", "updated_at", "age"} :
                      users'[id][k] = users[id][k]
                 /\ Len(users') = Len(users)
                 /\ \A j \in 1..Len(users) : j # id => users'[j] = users[j]]_vars

\* A login a week after the registration was answered 200; the account,
\* Pending since its registration, is stored Active with the time of the
\* login.
C8_Witness ==
  /\ out.op = "login"
  /\ out.status = 200
  /\ users[out.body.data.user._id].status = "Active"
  /\ users[out.body.data.user._id].created_at = 0
  /\ users[out.body.data.user._id].updated_at = now
  /\ now > 0

\* C10: authenticate answers 401 "Access denied. No token provided." to a
\* request without a token, 401 "Invalid token" to a malformed or wrongly
\* signed token, 401 "Token expired" to an expired token, 403 to a valid
\* token of a user who is not Active, and calls next with req.user set only
\* for a valid token of a stored Active user.
C10_AuthenticateAnswers ==
  [][Answers("authenticate") =>
       LET token == IF out'.req = NoHeader THEN EmptyText ELSE out'.req.credentials
           refused(status, message) ==
             /\ out'.status = status
             /\ out'.body.message = message
             /\ ~out'.next
       IN  IF token = EmptyText
           THEN refused(401, "Access denied. No token provided.")
           ELSE IF token.kind # "jwt" \/ token.sig # "JWT_SECRET"
           THEN refused(401, "Invalid token")
           ELSE IF now >= token.exp
           THEN refused(401, "Token expired")
           ELSE IF token.userId \notin 1..Len(users)
           THEN ~out'.next
           ELSE IF users[token.userId].status # "Active"
           THEN out'.status = 403 /\ ~out'.next
           ELSE out'.next /\ out'.user = token.userId]_vars

\* C11: every stored user record has a contact_number of exactly 11
\* characters, "0", "9", then nine digits, after any sequence of
\* registrations and logins.
C11_StoredContactNumber ==
  \A i \in 1..Len(users) :
    LET number == users[i].contact_number
    IN  /\ Len(number) = 11
        /\ number[1] = "0"
        /\ number[2] = "9"
        /\ \A j \in 3..11 : number[j] \in Digits

\* A login saved a stored record again, after a registration with a number
\* that is not of the form 09XXXXXXXXX had been turned away.
C11_Witness ==
  /\ out.op = "login"
  /\ out.status = 200
  /\ users[out.body.data.user._id].updated_at = now
  /\ out.body.data.user.contact_number = users[out.body.data.user._id].contact_number

\* The age the claim derives: the difference of the years, less one when the
\* month and day of today precede those of the birth.
DerivedAge(birth, today) ==
  (today.y - birth.y)
  - (IF today.m < birth.m \/ (today.m = birth.m /\ today.d < birth.d) THEN 1 ELSE 0)

\* The records this step saves: the one it creates, the one a login saves.
SavedInStep ==
  {i \in 1..Len(users') :
     \/ i > Len(users)
     \/ \E p \in Procs :
          pc[p] = "login_save" /\ pc'[p] = "idle" /\ local[p].doc._id = i}

\* C12: after every save of a user record, by the creation at registration
\* and by each successful login, the stored age is the age derived from the
\* stored date_of_birth as of the day of the save, whatever age the request
\* carried and whatever age was stored before.
C12_AgeAtSave ==
  [][\A i \in SavedInStep :
       users'[i].age = DerivedAge(users'[i].date_of_birth, Today(now))]_vars

\* An account registered with age 99 in the body a week before its birthday
\* logged in on the birthday: the stored age is one more than at creation.
C12_Witness ==
  /\ out.op = "login"
  /\ out.status = 200
  /\ now > 0
  /\ users[out.body.data.user._id].date_of_birth.d = BirthDaySoon.d
  /\ users[out.body.data.user._id].age = 36
  /\ out.body.data.user.age = 36

\* The four computations of the age, asked for every date of birth on every
\* day that is not before it.
NextAge ==
  \/ \E dob \in BirthDates, today \in Todays : SaveHookAge(dob, today)
  \/ \E dob \in BirthDates, today \in Todays : SanitizeAge(dob, today)
  \/ \E dob \in BirthDates, today \in Todays : ClientAge(dob, today)
  \/ \E dob \in BirthDates, age \in AgesSent, today \in Todays :
       RefineAge(dob, age, today)

AgeSpec == Init /\ [][NextAge]_vars

FieldRulesFail(op, req) ==
  IF op = "register"
  THEN registerValidator(req, now) # <<>>
  ELSE loginValidator(req) # <<>>

\* C14: on POST /register and POST /login a body that fails a request-field
\* rule is answered 400 by the validate middleware and the handler does not
\* run: no such request is ever past the middleware; a request turned away
\* by the request-field pass or by the schema pass leaves the stored users
\* as they were, is given no token and has no token issued for it.
C14_ValidationFirst ==
  [][/\ \A op \in {"register", "login"} :
          (Answers(op) /\ FieldRulesFail(op, out'.req))
          => /\ out'.status = 400
             /\ out'.at = "validate"
     /\ (out' # out /\ out'.op \in {"register", "login"}
           /\ out'.at \in {"validate", "parse"})
         => /\ out'.status = 400
            /\ users' = users
            /\ issued' = issued
            /\ ~CarriesToken(out'.body)
            /\ pc' = pc
     /\ \A p \in Procs :
          pc'[p] # "idle" => ~FieldRulesFail(local'[p].op, local'[p].req)]_vars

\* A login without a password for the email of a stored account was turned
\* away by the middleware.
C14_Witness ==
  /\ out.op = "login"
  /\ out.at = "validate"
  /\ out.status = 400
  /\ out.req.password = ""
  /\ AccountOf(out.req.email) # 0

\* C15: whenever the middleware turns a registration away, the errors of the
\* 400 response are the entries of all the request-field rules the body
\* violates, one per violated rule, the form_id rule among them when the
\* body has the key form_id.
C15_EveryViolationListed ==
  [][(Answers("register") /\ out'.at = "validate")
     => /\ out'.status = 400
        /\ out'.body.errors = registerValidator(out'.req, now)]_vars

\* Only register and login have acted so far: the statuses Suspended and
\* Inactive come from the administrative change alone.
OnlyRegisterAndLogin ==
  \A j \in 1..Len(users) : users[j].status \in {"Pending", "Active"}

\* C16: a record appears only in the step in which a registration is
\* answered 201, one record at a time; no step removes a record or changes
\* which record is which, so the stored users never shrink; a step of
\* register or login changes the status of a record only in a login answered
\* 200, the new status is Active (never Pending, Suspended or Inactive), and
\* over a sequence of register and login operations alone the status it
\* replaces is Pending.
C16_Lifecycle ==
  [][/\ Len(users') >= Len(users)
     /\ \A i \in 1..Len(users) :
          /\ users'[i]._id = users[i]._id
          /\ users'[i].user_id = users[i].user_id
          /\ users'[i].email = users[i].email
     /\ Len(users') > Len(users)
         => /\ Len(users') = Len(users) + 1
            /\ Answers("register")
            /\ out'.status = 201
            /\ out'.at = "created"
     /\ \A i \in 1..Len(users) :
          users'[i].status # users[i].status
          => \/ \E status \in {"Suspended", "Inactive"} : AdminSetStatus(i, status)
             \/ /\ Answers("login")
                /\ out'.status = 200
                /\ out'.body.data.user._id = i
                /\ users'[i].status = "Active"
                /\ OnlyRegisterAndLogin => users[i].status = "Pending"]_vars

\* Two records are stored, nothing but register and login has acted, and a
\* login has just made the second one Active while the first is still
\* Pending.
C16_Witness ==
  /\ Len(users) = 2
  /\ OnlyRegisterAndLogin
  /\ out.op = "login"
  /\ out.status = 200
  /\ out.body.data.user._id = 2
  /\ users[2].status = "Active"
  /\ users[1].status = "Pending"

\* ------------------------------------------------------------ address picker
\* The component PhilippineAddressPicker and the two props the registration
\* screen drives. error is left out: it is only displayed.

\* The address package: the codes of the regions, and the codes under a code.
RegionCodes == {<<1>>, <<2>>}

Children(code) ==
  IF code = <<1>> THEN {Append(code, 1), Append(code, 2)} ELSE {Append(code, 1)}

\* The name the package gives for a code; no name is a code.
NameOf(code) ==
  <<"X">> \o [i \in 1..Len(code) |-> IF code[i] = 1 THEN "A" ELSE "b"]

\* data.map(...): the objects a load makes for the codes it was given.
FormattedItems(codes) ==
  {[id |-> code, name |-> NameOf(code), ref |-> 0] : code \in codes}

\* The objects of a new list are none of the objects held before: a selected
\* item held while its list is replaced is an object of a replaced list.
Held(selected) == IF selected # NoItem THEN [selected EXCEPT !.ref = 1] ELSE selected

Load(level, code) == [level |-> level, code |-> code]

\* Loads in which a newer load of a level replaces the one in flight.
InFlightLatestOnly(loads, started) ==
  {load \in loads : \A new \in started : new.level # load.level} \cup started

\* A load call is not cancelled: the loads in flight after a handler are
\* those in flight before it and those its effects started.
InFlight(loads, started) == loads \cup started

\* The load calls in flight stay within the bound.
WithinLoads(loads) == Cardinality(loads) <= MaxInFlight

\* useEffect on [selected item, visible]: the load it starts after a render
\* in which the selected item became another object.
LoadOnSelection(level, before, after, shown) ==
  IF after # NoItem /\ shown /\ after # before
  THEN {Load(level, after.id)}
  ELSE {}

\* useEffect on [initialAddress, regions]: the region of the list whose name
\* is the region of initialAddress becomes the selected region.
InitialRegion(list, initial, current) ==
  IF initial # NoAddress
     /\ \E r \in list : toLowerCase(r.name) = toLowerCase(initial.region)
  THEN CHOOSE r \in list : toLowerCase(r.name) = toLowerCase(initial.region)
  ELSE current

Call(fn, arg) == [fn |-> fn, arg |-> arg]

\* The screen sets showAddressPicker; the picker's effects on visible start
\* the loads of the regions and of the options under every selected item.
Open ==
  /\ ~visible
  /\ visible' = TRUE
  /\ selectedRegion' = InitialRegion(regions, initialAddress, selectedRegion)
  /\ fetching' =
       fetching \cup {Load("region", <<>>)}
       \cup (IF selectedRegion # NoItem
             THEN {Load("province", selectedRegion.id)} ELSE {})
       \cup (IF selectedProvince # NoItem
             THEN {Load("city", selectedProvince.id)} ELSE {})
       \cup (IF selectedCity # NoItem
             THEN {Load("barangay", selectedCity.id)} ELSE {})
       \cup LoadOnSelection("province", selectedRegion, selectedRegion', TRUE)
  /\ WithinLoads(fetching')
  /\ isLoading' = TRUE
  /\ calls' = <<>>
  /\ UNCHANGED <<step, selectedProvince, selectedCity, selectedBarangay,
                 regions, provinces, cities, barangays, initialAddress>>
  /\ UNCHANGED searchQuery
  /\ UNCHANGED serverVars
  /\ UNCHANGED authVars

\* The close button and onRequestClose: onClose, and the screen hides the
\* picker; the picker keeps its state.
Close ==
  /\ visible
  /\ calls' = <<Call("onClose", NoAddress)>>
  /\ visible' = FALSE
  /\ selectedRegion' = InitialRegion(regions, initialAddress, selectedRegion)
  /\ UNCHANGED <<step, selectedProvince, selectedCity, selectedBarangay,
                 regions, provinces, cities, barangays, isLoading,
                 initialAddress, fetching>>
  /\ UNCHANGED searchQuery
  /\ UNCHANGED serverVars
  /\ UNCHANGED authVars

\* loadRegions, loadProvinces, loadCities, loadBarangays after the await: the
\* list of the level is set and isLoading falls.
LoadResolves(load) ==
  /\ load \in fetching
  /\ calls' = <<>>
  /\ IF load.level = "region"
     THEN /\ regions' = FormattedItems(RegionCodes)
          /\ selectedRegion' = InitialRegion(regions', initialAddress, Held(selectedRegion))
          /\ LET started == LoadOnSelection("province", Held(selectedRegion),
                                            selectedRegion', visible)
             IN  /\ fetching' = (fetching \ {load}) \cup started
                 /\ isLoading' = (started # {})
          /\ UNCHANGED <<provinces, cities, barangays,
                         selectedProvince, selectedCity, selectedBarangay>>
     ELSE /\ fetching' = fetching \ {load}
          /\ isLoading' = FALSE
          /\ IF load.level = "province"
             THEN /\ provinces' = FormattedItems(Children(load.code))
                  /\ selectedProvince' = Held(selectedProvince)
             ELSE UNCHANGED <<provinces, selectedProvince>>
          /\ IF load.level = "city"
             THEN /\ cities' = FormattedItems(Children(load.code))
                  /\ selectedCity' = Held(selectedCity)
             ELSE UNCHANGED <<cities, selectedCity>>
          /\ IF load.level = "barangay"
             THEN /\ barangays' = FormattedItems(Children(load.code))
                  /\ selectedBarangay' = Held(selectedBarangay)
             ELSE UNCHANGED <<barangays, selectedBarangay>>
          /\ UNCHANGED <<regions, selectedRegion>>
  /\ UNCHANGED <<step, visible, initialAddress>>
  /\ UNCHANGED searchQuery
  /\ UNCHANGED serverVars
  /\ UNCHANGED authVars

\* The catch of a load: the list stays as it was and isLoading falls.
LoadFails(load) ==
  /\ load \in fetching
  /\ fetching' = fetching \ {load}
  /\ isLoading' = FALSE
  /\ calls' = <<>>
  /\ UNCHANGED <<step, selectedRegion, selectedProvince, selectedCity,
                 selectedBarangay, regions, provinces, cities, barangays,
                 visible, initialAddress>>
  /\ UNCHANGED searchQuery
  /\ UNCHANGED serverVars
  /\ UNCHANGED authVars

\* String.prototype.includes
includes(s, part) ==
  \E i \in 1..(Len(s) - Len(part) + 1) : SubSeq(s, i, i + Len(part) - 1) = part

\* A filter that compares the name and the query as they are typed.
getFilteredDataCaseSensitive(level, query) ==
  LET data == CASE level = "region" -> regions
                [] level = "province" -> provinces
                [] level = "city" -> cities
                [] level = "barangay" -> barangays
  IN  IF trim(query) = <<>>
      THEN data
      ELSE {item \in data : includes(item.name, query)}

\* getFilteredData: the list of the step, narrowed to the names that hold
\* the query, letter case apart; the whole list for a blank query.
getFilteredData(level, query) ==
  LET data == CASE level = "region" -> regions
                [] level = "province" -> provinces
                [] level = "city" -> cities
                [] level = "barangay" -> barangays
  IN  IF trim(query) = <<>>
      THEN data
      ELSE {item \in data : includes(toLowerCase(item.name), toLowerCase(query))}

\* The texts typed into the search bar.
Queries == {<<>>, <<" ">>, <<"a">>}

\* onChangeText of the search bar, and its clear button.
setSearchQuery(text) ==
  /\ visible
  /\ text # searchQuery
  /\ searchQuery' = text
  /\ calls' = <<>>
  /\ UNCHANGED <<step, selectedRegion, selectedProvince, selectedCity,
                 selectedBarangay, regions, provinces, cities, barangays,
                 isLoading, visible, initialAddress, fetching>>
  /\ UNCHANGED serverVars
  /\ UNCHANGED authVars

\* An item can be pressed: the list is rendered and the item is in it.
Offered(level, list, item) ==
  /\ visible
  /\ ~isLoading
  /\ step = level
  /\ item \in list
  /\ item \in getFilteredData(step, searchQuery)

handleRegionSelect(region) ==
  /\ Offered("region", regions, region)
  /\ selectedRegion' = region
  /\ selectedProvince' = NoItem
  /\ selectedCity' = NoItem
  /\ selectedBarangay' = NoItem
  /\ provinces' = {}
  /\ cities' = {}
  /\ barangays' = {}
  /\ step' = "province"
  /\ LET started == LoadOnSelection("province", selectedRegion, region, visible)
     IN  /\ fetching' = InFlight(fetching, started)
         /\ WithinLoads(fetching')
         /\ isLoading' = (started # {})
  /\ searchQuery' = <<>>
  /\ calls' = <<>>
  /\ UNCHANGED <<regions, visible, initialAddress>>
  /\ UNCHANGED serverVars
  /\ UNCHANGED authVars

handleProvinceSelect(province) ==
  /\ Offered("province", provinces, province)
  /\ selectedProvince' = province
  /\ selectedCity' = NoItem
  /\ selectedBarangay' = NoItem
  /\ cities' = {}
  /\ barangays' = {}
  /\ step' = "city"
  /\ LET started == LoadOnSelection("city", selectedProvince, province, visible)
     IN  /\ fetching' = InFlight(fetching, started)
         /\ WithinLoads(fetching')
         /\ isLoading' = (started # {})
  /\ searchQuery' = <<>>
  /\ calls' = <<>>
  /\ UNCHANGED <<selectedRegion, regions, provinces, visible, initialAddress>>
  /\ UNCHANGED serverVars
  /\ UNCHANGED authVars

handleCitySelect(city) ==
  /\ Offered("city", cities, city)
  /\ selectedCity' = city
  /\ selectedBarangay' = NoItem
  /\ barangays' = {}
  /\ step' = "barangay"
  /\ LET started == LoadOnSelection("barangay", selectedCity, city, visible)
     IN  /\ fetching' = InFlight(fetching, started)
         /\ WithinLoads(fetching')
         /\ isLoading' = (started # {})
  /\ searchQuery' = <<>>
  /\ calls' = <<>>
  /\ UNCHANGED <<selectedRegion, selectedProvince, regions, provinces, cities,
                 visible, initialAddress>>
  /\ UNCHANGED serverVars
  /\ UNCHANGED authVars

\* An address whose barangay is read from the state, which still holds the
\* barangay selected before.
SelectedAddressFromState(barangay) ==
  [region |-> selectedRegion.name,
   province |-> selectedProvince.name,
   city |-> selectedCity.name,
   barangay |-> selectedBarangay.name]

\* The address handleBarangaySelect passes to onSelect.
SelectedAddress(barangay) ==
  [region |-> selectedRegion.name,
   province |-> selectedProvince.name,
   city |-> selectedCity.name,
   barangay |-> barangay.name]

\* handleBarangaySelect; onSelect is the screen's handleAddressSelect, which
\* keeps the four names, and onClose hides the picker.
handleBarangaySelect(barangay) ==
  /\ Offered("barangay", barangays, barangay)
  /\ selectedBarangay' = barangay
  /\ IF selectedRegion # NoItem /\ selectedProvince # NoItem /\ selectedCity # NoItem
     THEN /\ calls' = <<Call("onSelect", SelectedAddress(barangay)),
                        Call("onClose", NoAddress)>>
          /\ initialAddress' = SelectedAddress(barangay)
          /\ visible' = FALSE
          /\ selectedRegion' = InitialRegion(regions, initialAddress', selectedRegion)
     ELSE /\ calls' = <<>>
          /\ UNCHANGED <<initialAddress, visible, selectedRegion>>
  /\ UNCHANGED <<step, selectedProvince, selectedCity, regions, provinces,
                 cities, barangays, isLoading, fetching>>
  /\ UNCHANGED searchQuery
  /\ UNCHANGED serverVars
  /\ UNCHANGED authVars

\* A goBack that also empties the list of the level it leaves.
goBackClearing ==
  /\ visible
  /\ step # "region"
  /\ step' = CASE step = "barangay" -> "city"
               [] step = "city" -> "province"
               [] step = "province" -> "region"
  /\ provinces' = IF step = "province" THEN {} ELSE provinces
  /\ cities' = IF step = "city" THEN {} ELSE cities
  /\ barangays' = IF step = "barangay" THEN {} ELSE barangays
  /\ searchQuery' = <<>>
  /\ calls' = <<>>
  /\ UNCHANGED <<selectedRegion, selectedProvince, selectedCity, selectedBarangay,
                 regions, isLoading, visible, initialAddress, fetching>>
  /\ UNCHANGED serverVars
  /\ UNCHANGED authVars

\* The back arrow, shown when step is not "region".
goBack ==
  /\ visible
  /\ step # "region"
  /\ step' = CASE step = "barangay" -> "city"
               [] step = "city" -> "province"
               [] step = "province" -> "region"
  /\ searchQuery' = <<>>
  /\ calls' = <<>>
  /\ UNCHANGED <<selectedRegion, selectedProvince, selectedCity, selectedBarangay,
                 regions, provinces, cities, barangays, isLoading, visible,
                 initialAddress, fetching>>
  /\ UNCHANGED serverVars
  /\ UNCHANGED authVars

resetSelection ==
  /\ visible
  /\ selectedRegion' = NoItem
  /\ selectedProvince' = NoItem
  /\ selectedCity' = NoItem
  /\ selectedBarangay' = NoItem
  /\ provinces' = {}
  /\ cities' = {}
  /\ barangays' = {}
  /\ step' = "region"
  /\ searchQuery' = <<>>
  /\ calls' = <<>>
  /\ UNCHANGED <<regions, isLoading, visible, initialAddress, fetching>>
  /\ UNCHANGED serverVars
  /\ UNCHANGED authVars

\* Breadcrumbs that are all rendered whatever is selected.
BreadcrumbShownAlways(level) == level \in {"region", "province", "city", "barangay"}

\* The breadcrumb of a level is rendered: Region always, the others when the
\* level above has a selected item.
BreadcrumbShown(level) ==
  CASE level = "region" -> TRUE
    [] level = "province" -> selectedRegion # NoItem
    [] level = "city" -> selectedProvince # NoItem
    [] level = "barangay" -> selectedCity # NoItem

\* The onPress of a breadcrumb.
BreadcrumbPress(level) ==
  /\ visible
  /\ BreadcrumbShown(level)
  /\ step' = level
  /\ searchQuery' = <<>>
  /\ calls' = <<>>
  /\ UNCHANGED <<selectedRegion, selectedProvince, selectedCity, selectedBarangay,
                 regions, provinces, cities, barangays, isLoading, visible,
                 initialAddress, fetching>>
  /\ UNCHANGED serverVars
  /\ UNCHANGED authVars

Levels == {"region", "province", "city", "barangay"}

\* The picker on the registration screen, its loads resolving in any order.
NextPicker ==
  \/ Open
  \/ Close
  \/ \E load \in fetching : LoadResolves(load)
  \/ \E load \in fetching : LoadFails(load)
  \/ \E item \in regions : handleRegionSelect(item)
  \/ \E item \in provinces : handleProvinceSelect(item)
  \/ \E item \in cities : handleCitySelect(item)
  \/ \E item \in barangays : handleBarangaySelect(item)
  \/ goBack
  \/ resetSelection
  \/ \E level \in Levels : BreadcrumbPress(level)
  \/ \E text \in Queries : setSearchQuery(text)

PickerSpec == Init /\ [][NextPicker]_vars

\* The position of a step in the order region, province, city, barangay.
LevelOf(level) ==
  CASE level = "region" -> 1
    [] level = "province" -> 2
    [] level = "city" -> 3
    [] level = "barangay" -> 4

\* C17: selecting a region sets it, clears the selected province, city and
\* barangay and the lists of provinces, cities and barangays; selecting a
\* province clears the selected city and barangay and the lists of cities
\* and barangays; selecting a city clears the selected barangay and the list
\* of barangays; each of the three moves the step to the next level and
\* leaves in flight a load of that level's options for the code of the item
\* selected.
C17_SelectionCascade ==
  [][/\ \A item \in regions :
          handleRegionSelect(item)
          => /\ selectedRegion' = item
             /\ selectedProvince' = NoItem /\ selectedCity' = NoItem
             /\ selectedBarangay' = NoItem
             /\ provinces' = {} /\ cities' = {} /\ barangays' = {}
             /\ step' = "province"
             /\ [level |-> "province", code |-> item.id] \in fetching'
     /\ \A item \in provinces :
          handleProvinceSelect(item)
          => /\ selectedProvince' = item
             /\ selectedCity' = NoItem /\ selectedBarangay' = NoItem
             /\ cities' = {} /\ barangays' = {}
             /\ step' = "city"
             /\ [level |-> "city", code |-> item.id] \in fetching'
     /\ \A item \in cities :
          handleCitySelect(item)
          => /\ selectedCity' = item
             /\ selectedBarangay' = NoItem
             /\ barangays' = {}
             /\ step' = "barangay"
             /\ [level |-> "barangay", code |-> item.id] \in fetching']_vars

\* C18: a step in which onSelect is called is the selection of a barangay;
\* the address passed holds the names, not the codes, of the selected
\* region, province and city and of the barangay pressed; onClose is called
\* next and the picker is hidden. Selecting a region, a province or a city,
\* goBack, a breadcrumb, resetSelection, closing and a load coming back call
\* no onSelect.
C18_OnSelectOnlyForBarangay ==
  [][(\E i \in 1..Len(calls') : calls'[i].fn = "onSelect")
     => \E item \in barangays :
          /\ step = "barangay"
          /\ handleBarangaySelect(item)
          /\ Len(calls') = 2
          /\ calls'[1].fn = "onSelect"
          /\ calls'[1].arg = [region |-> selectedRegion.name,
                              province |-> selectedProvince.name,
                              city |-> selectedCity.name,
                              barangay |-> item.name]
          /\ calls'[1].arg.region # selectedRegion.id
          /\ calls'[1].arg.barangay # item.id
          /\ calls'[2].fn = "onClose"
          /\ ~visible']_vars

\* The second province of the first region was selected on the way: its
\* barangay was pressed, onSelect got the four names and the picker closed.
C18_Witness ==
  /\ Len(calls) = 2
  /\ calls[1].fn = "onSelect"
  /\ calls[1].arg = [region |-> NameOf(<<1>>),
                     province |-> NameOf(<<1, 2>>),
                     city |-> NameOf(<<1, 2, 1>>),
                     barangay |-> NameOf(<<1, 2, 1, 1>>)]
  /\ ~visible
  /\ initialAddress = calls[1].arg

\* C19: a step that moves the step forward moves it by one level and is the
\* selection of an item at the level it leaves; no breadcrumb and no other
\* action moves it forward otherwise.
C19_ForwardOneLevel ==
  [][LevelOf(step') > LevelOf(step)
     => /\ LevelOf(step') = LevelOf(step) + 1
        /\ \/ \E item \in regions : handleRegionSelect(item)
           \/ \E item \in provinces : handleProvinceSelect(item)
           \/ \E item \in cities : handleCitySelect(item)]_vars

\* C20: when a storage call of register or login throws an error that is
\* neither a duplicate key nor a validation error, and when a statement of
\* registerUser or updateUser throws an error that is not a validation
\* error, the response is 500 and its body holds success and one of the
\* fixed messages and nothing else: no key carries the message of the error
\* thrown.
C20_GenericFailure ==
  [][((\E p \in Procs : StorageThrows(p))
      \/ \E handler \in {"registerUser", "updateUser"}, message \in ThrownMessages :
           ControllerThrows(handler, message))
     => /\ out'.status = 500
        /\ DOMAIN out'.body = {"success", "message"}
        /\ out'.body.message \in
             {"Registration failed. Please try again later.",
              "Login failed. Please try again later.",
              "Server error",
              "Update failed"}]_vars

\* The code a list of options was loaded for; <<>> for the empty list.
LoadedFor(list) ==
  IF list = {} THEN <<>>
  ELSE LET item == CHOOSE i \in list : TRUE
       IN  SubSeq(item.id, 1, Len(item.id) - 1)

\* The list of a level holds the options of another parent than the item
\* selected above it.
Stale(list, parent) ==
  /\ list # {}
  /\ parent # NoItem
  /\ LoadedFor(list) # parent.id

\* C21: a load in flight is not cancelled by any handler: it stays in flight
\* until it comes back or fails; and a load that comes back sets the list of
\* its level to the options of the code it was called with, whatever item is
\* selected by then. So a list of provinces loaded for one region can be
\* shown while another region is selected, and likewise for cities and
\* barangays.
C21_LoadsNotCancelled ==
  [][/\ \A load \in fetching :
          load \in fetching' \/ LoadResolves(load) \/ LoadFails(load)
     /\ \A load \in fetching :
          (load.level = "province" /\ load \notin fetching'
             /\ provinces' # provinces)
          => LoadedFor(provinces') = load.code
     /\ \A load \in fetching :
          (load.level = "city" /\ load \notin fetching' /\ cities' # cities)
          => LoadedFor(cities') = load.code
     /\ \A load \in fetching :
          (load.level = "barangay" /\ load \notin fetching'
             /\ barangays' # barangays)
          => LoadedFor(barangays') = load.code]_vars

\* The picker shows, at step province with nothing loading, the provinces of
\* a region that is not the selected one: the load for the region selected
\* first came back last.
C21_Witness ==
  /\ visible
  /\ step = "province"
  /\ ~isLoading
  /\ fetching = {}
  /\ Stale(provinces, selectedRegion)

\* C22: goBack, and the press of the breadcrumb of a level before the
\* current one, change the step and empty the search text and change nothing
\* else: the four selected items and the four lists stay as they are and no
\* load is started.
C22_GoingBackKeepsState ==
  [][(goBack \/ \E level \in Levels :
                  LevelOf(level) < LevelOf(step) /\ BreadcrumbPress(level))
     => /\ LevelOf(step') < LevelOf(step)
        /\ searchQuery' = <<>>
        /\ UNCHANGED <<selectedRegion, selectedProvince, selectedCity,
                       selectedBarangay>>
        /\ UNCHANGED <<regions, provinces, cities, barangays>>
        /\ UNCHANGED <<fetching, isLoading, visible, initialAddress>>]_vars

\* Back at step region with a province and a city still selected and the
\* lists of provinces, cities and barangays still loaded.
C22_Witness ==
  /\ visible
  /\ step = "region"
  /\ selectedProvince # NoItem
  /\ selectedCity # NoItem
  /\ provinces # {}
  /\ cities # {}
  /\ barangays # {}
  /\ fetching = {}

\* ------------------------------------------------------------ contact numbers
\* The three places that rewrite a contact number, applied to texts.

\* String.prototype.slice(0, to), for a text longer than to.
SliceTo(v, to) == SubSeq(v, 1, to)

\* formatContactNumber of the registration screen: the value it passes to
\* setContactNumber.
formatContactNumber(text) ==
  LET cleaned == StripNonDigits(text)
      a == IF Len(cleaned) > 0 /\ ~StartsWith(cleaned, <<"0">>)
           THEN <<"0">> \o cleaned
           ELSE cleaned
      b == IF StartsWith(a, <<"6", "3">>) /\ Len(a) >= 12
           THEN <<"0">> \o SubstringFrom(a, 2)
           ELSE a
  IN  IF Len(b) > ContactLength THEN SliceTo(b, ContactLength) ELSE b

\* The texts given as contact numbers: a prefix, then the first digits of a
\* subscriber number.
PhoneTail == <<"9", "1", "7", "1", "2", "3", "4", "5", "6", "7", "8", "9">>

PhonePrefixes ==
  {<<>>, <<"0">>, <<"6", "3">>, <<"+", "6", "3">>, <<"6">>, <<"0", "-">>, <<"-">>}

PhoneTexts ==
  {prefix \o SubSeq(PhoneTail, 1, n) : prefix \in PhonePrefixes, n \in 0..Len(PhoneTail)}

PhoneQuestion(text) == [contact_number |-> text]

\* transformForMongoose applied to data that holds the contact number.
TransformContact(text) ==
  /\ out' = Reply("transformForMongoose", "return", PhoneQuestion(text),
               Response(0, [contact_number |->
                              transformForMongoose(PhoneQuestion(text)).contact_number]))
  /\ UNCHANGED <<users, pc, local, issued, now>>
  /\ UNCHANGED pickerVars
  /\ UNCHANGED authVars

\* The save hook applied to a document that holds the contact number.
SaveHookContact(text) ==
  /\ out' = Reply("saveHookContact", "return", PhoneQuestion(text),
               Response(0, [contact_number |->
                              IF text # <<>> THEN SaveHookPhone(text) ELSE text]))
  /\ UNCHANGED <<users, pc, local, issued, now>>
  /\ UNCHANGED pickerVars
  /\ UNCHANGED authVars

\* The screen's contact field after the text was typed or pasted into it.
TypeContact(text) ==
  /\ out' = Reply("formatContactNumber", "return", PhoneQuestion(text),
               Response(0, [contact_number |-> formatContactNumber(text)]))
  /\ UNCHANGED <<users, pc, local, issued, now>>
  /\ UNCHANGED pickerVars
  /\ UNCHANGED authVars

NextPhone ==
  \/ \E text \in PhoneTexts : TransformContact(text)
  \/ \E text \in PhoneTexts : SaveHookContact(text)
  \/ \E text \in PhoneTexts : TypeContact(text)

PhoneSpec == Init /\ [][NextPhone]_vars

\* The canonical form as the rule states it: the digits; "0" in front when
\* they start with neither "0" nor "63"; "0" in place of a leading "63" when
\* there are 12 digits or more; the first 11 characters.
Canonical(text) ==
  LET digits == StripNonDigits(text)
      a == IF ~StartsWith(digits, <<"0">>) /\ ~StartsWith(digits, <<"6", "3">>)
           THEN <<"0">> \o digits
           ELSE digits
      b == IF StartsWith(a, <<"6", "3">>) /\ Len(a) >= 12
           THEN <<"0">> \o SubSeq(a, 3, Len(a))
           ELSE a
  IN  SubSeq(b, 1, IF Len(b) < 11 THEN Len(b) ELSE 11)

\* C23: for every non-empty text given as contact number, transformForMongoose
\* and the save hook each return the canonical form of the text: the digits,
\* "0" in front when they start with neither "0" nor "63", "0" for a leading
\* "63" of 12 digits or more, cut to 11 characters.
C23_Canonicalization ==
  [][(out' # out /\ out'.op \in {"transformForMongoose", "saveHookContact"}
        /\ out'.req.contact_number # <<>>)
     => out'.body.contact_number = Canonical(out'.req.contact_number)]_vars

\* C26: formatContactNumber stores, for a typed text whose digits start with
\* 63 and are 12 or more, "0" followed by the digits after the 63, cut to 11
\* characters (639171234567 gives 09171234567); and for every text the value
\* stored is digits only, at most 11 characters long, and starts with "0"
\* unless it is empty.
C26_CountryCodeRemoved ==
  [][(out' # out /\ out'.op = "formatContactNumber")
     => LET digits == StripNonDigits(out'.req.contact_number)
            stored == out'.body.contact_number
        IN  /\ (StartsWith(digits, <<"6", "3">>) /\ Len(digits) >= 12)
                => stored = SubSeq(<<"0">> \o SubSeq(digits, 3, Len(digits)), 1, 11)
            /\ \A i \in 1..Len(stored) : stored[i] \in Digits
            /\ Len(stored) <= 11
            /\ stored # <<>> => stored[1] = "0"]_vars

\* C24: the record a registration creates stores the hash of the password of
\* the request, hashed once; no later step, the save of a login included,
\* changes a stored password; so the password given at registration verifies
\* against the stored record after any number of logins, and a login is
\* refused for its password only when the password sent does not verify.
C24_HashedOnce ==
  [][/\ Len(users') > Len(users)
         => /\ users'[Len(users')].password = Hash(out'.req.password)
            /\ comparePassword(users'[Len(users')], out'.req.password)
     /\ \A i \in 1..Len(users) : users'[i].password = users[i].password
     /\ (Answers("login") /\ out'.at = "password")
         => ~comparePassword(users[AccountOf(out'.req.email)], out'.req.password)
     /\ (Answers("login") /\ out'.status = 200)
         => comparePassword(users'[out'.body.data.user._id], out'.req.password)]_vars

\* A login was answered 200, on a later day than the registration, for an
\* account that was Active before this save: the stored hash still verifies
\* the password sent.
C24_Witness ==
  /\ out.op = "login"
  /\ out.status = 200
  /\ LET id == out.body.data.user._id
     IN  /\ users[id].updated_at > users[id].created_at
         /\ users[id].status = "Active"
         /\ users[id].password = Hash(out.req.password)

\* The items of the list of the current step whose name, letter case apart,
\* holds the search text at some position; every item for a blank text.
NarrowedList ==
  LET data == CASE step = "region" -> regions
                [] step = "province" -> provinces
                [] step = "city" -> cities
                [] step = "barangay" -> barangays
      blank == \A k \in 1..Len(searchQuery) : searchQuery[k] = " "
      name(item) == toLowerCase(item.name)
      text == toLowerCase(searchQuery)
  IN  {item \in data :
         \/ blank
         \/ \E i \in 0..(Len(item.name) - Len(searchQuery)) :
              \A k \in 1..Len(searchQuery) : name(item)[i + k] = text[k]}

\* C25: the list shown is the list of the current step narrowed to the names
\* that hold the search text as a substring, letter case apart, and the
\* whole list for an empty or blank text; only an item of that list can be
\* selected; every step that changes the level empties the search text.
C25_SearchFilter ==
  [][/\ getFilteredData(step, searchQuery) = NarrowedList
     /\ \A item \in regions : handleRegionSelect(item) => item \in NarrowedList
     /\ \A item \in provinces : handleProvinceSelect(item) => item \in NarrowedList
     /\ \A item \in cities : handleCitySelect(item) => item \in NarrowedList
     /\ \A item \in barangays : handleBarangaySelect(item) => item \in NarrowedList
     /\ step' # step => searchQuery' = <<>>
     /\ (goBack \/ resetSelection \/ \E level \in Levels : BreadcrumbPress(level))
         => searchQuery' = <<>>]_vars

\* After a selection, back on the regions, the text "a" is typed: the list
\* shown is a part of the regions, neither none nor all of them.
C25_Witness ==
  /\ visible
  /\ ~isLoading
  /\ step = "region"
  /\ selectedRegion # NoItem
  /\ searchQuery = <<"a">>
  /\ getFilteredData(step, searchQuery) # {}
  /\ getFilteredData(step, searchQuery) # regions
  /\ getFilteredData(step, searchQuery) \subseteq regions

\* C27: a login never undoes a suspension: no step makes Active an account
\* whose stored status is Suspended or Inactive, the save of a login that
\* read the record while it was Pending included.
C27_SuspensionStands ==
  [][\A i \in 1..Len(users) :
       users[i].status \in {"Suspended", "Inactive"} => users'[i].status # "Active"]_vars

\* The selections are nested and the step has the selection it stands on.
SelectionChain ==
  /\ selectedBarangay # NoItem => selectedCity # NoItem
  /\ selectedCity # NoItem => selectedProvince # NoItem
  /\ selectedProvince # NoItem => selectedRegion # NoItem
  /\ step = "province" => selectedRegion # NoItem
  /\ step = "city" => selectedProvince # NoItem
  /\ step = "barangay" => selectedCity # NoItem

\* C28: in every state of the picker a selected barangay implies a selected
\* city, a selected city a selected province, a selected province a selected
\* region; the step is province, city or barangay only when a region, a
\* province or a city is selected; so every press of a barangay passes the
\* guard of handleBarangaySelect and calls onSelect.
C28_SelectionChain ==
  [][/\ SelectionChain
     /\ SelectionChain'
     /\ \A item \in barangays :
          handleBarangaySelect(item)
          => /\ selectedRegion # NoItem /\ selectedProvince # NoItem /\ selectedCity # NoItem
             /\ Len(calls') = 2
             /\ calls'[1].fn = "onSelect"
             /\ calls'[1].arg.barangay = item.name]_vars

\* A barangay was pressed at step barangay: the four selections are set and
\* onSelect was called with the names of the selected city and barangay.
C28_Witness ==
  /\ step = "barangay"
  /\ selectedBarangay # NoItem
  /\ selectedCity # NoItem
  /\ selectedProvince # NoItem
  /\ selectedRegion # NoItem
  /\ calls # <<>>
  /\ calls[1].fn = "onSelect"
  /\ calls[1].arg.barangay = selectedBarangay.name
  /\ calls[1].arg.city = selectedCity.name

\* The token of the request authenticate answered, when it is a token this
\* server signed.
Genuine(token) == token.kind = "jwt" /\ token.sig = "JWT_SECRET"

\* C29 as stated: a token this server issued for an account is refused with
\* 403 whenever the account is Pending, and is accepted only for an account
\* whose status is Active now.
C29_PendingRefused403 ==
  [][Answers("authenticate") =>
       LET token == HeaderToken(out'.req)
       IN  /\ (Genuine(token) /\ users[token.userId].status = "Pending")
               => out'.status = 403 /\ ~out'.next
           /\ out'.next
               => Genuine(token) /\ users[token.userId].status = "Active"]_vars

\* C29, amended: a token this server issued for an account is refused for
\* as long as the account is Pending, with 403 while the token has not
\* expired and with 401 once it has; a token is accepted only when it has
\* not expired and the status of its account is Active now, whatever the
\* status was when the token was issued; and an account becomes Active only
\* by a login answered 200.
C29_PendingRefused ==
  [][/\ Answers("authenticate") =>
          LET token == HeaderToken(out'.req)
          IN  /\ (Genuine(token) /\ users[token.userId].status = "Pending")
                  => /\ ~out'.next
                     /\ out'.status = IF now < token.exp THEN 403 ELSE 401
              /\ (Genuine(token) /\ users[token.userId].status # "Active")
                  => ~out'.next /\ out'.status \in {401, 403}
              /\ out'.next
                  => /\ Genuine(token)
                     /\ now < token.exp
                     /\ users[token.userId].status = "Active"
                     /\ out'.user = token.userId
     /\ \A i \in 1..Len(users) :
          (users[i].status # "Active" /\ users'[i].status = "Active")
          => /\ Answers("login")
             /\ out'.status = 200
             /\ out'.body.data.user._id = i]_vars

\* The token of a registration, not yet expired, was presented while its
\* account was Pending, and authenticate answered 403.
C29_Witness ==
  /\ out.op = "authenticate"
  /\ out.status = 403
  /\ ~out.next
  /\ LET token == HeaderToken(out.req)
     IN  /\ Genuine(token)
         /\ token \in issued
         /\ token.iat = users[token.userId].created_at
         /\ now < token.exp
         /\ users[token.userId].status = "Pending"

\* ------------------------------------------------------------ auth store
\* useAuthStore: the zustand store of the client, kept by persist.

\* The users and tokens the screens pass to login and register.
StoreUsers ==
  {[_id |-> "u1", first_name |-> "A", status |-> "Pending"],
   [_id |-> "u2", first_name |-> "C", status |-> "Active"]}

StoreTokens == {"t1", "t2", "t3"}

\* The Partial<User> objects passed to updateUser.
UserUpdates ==
  {[first_name |-> "B"], [status |-> "Active"],
   [first_name |-> "B", status |-> "Suspended"]}

\* The values passed to setError.
StoreErrors == {NULL, "e1", "e2"}

\* partialize: the part of the state that persist writes.
partialize(state) ==
  [user |-> state.user, token |-> state.token,
   isAuthenticated |-> state.isAuthenticated]

\* { ...state.user, ...updatedUser }
Spread(user, updatedUser) ==
  [k \in DOMAIN user |-> IF k \in DOMAIN updatedUser THEN updatedUser[k] ELSE user[k]]

\* Every action is a set(...) under persist: the state is merged and its
\* part is written to the item.
login(user, token) ==
  /\ auth' = [user |-> user, token |-> token, isAuthenticated |-> TRUE,
              isLoading |-> FALSE, error |-> NULL]
  /\ storage' = partialize(auth')
  /\ UNCHANGED <<serverVars, pickerVars>>

register(user, token) ==
  /\ auth' = [user |-> user, token |-> token, isAuthenticated |-> TRUE,
              isLoading |-> FALSE, error |-> NULL]
  /\ storage' = partialize(auth')
  /\ UNCHANGED <<serverVars, pickerVars>>

logout ==
  /\ auth' = [user |-> NoUser, token |-> NULL, isAuthenticated |-> FALSE,
              isLoading |-> FALSE, error |-> NULL]
  /\ storage' = partialize(auth')
  /\ UNCHANGED <<serverVars, pickerVars>>

setLoading(loading) ==
  /\ auth' = [auth EXCEPT !.isLoading = loading]
  /\ storage' = partialize(auth')
  /\ UNCHANGED <<serverVars, pickerVars>>

setError(error) ==
  /\ auth' = [auth EXCEPT !.error = error]
  /\ storage' = partialize(auth')
  /\ UNCHANGED <<serverVars, pickerVars>>

clearError ==
  /\ auth' = [auth EXCEPT !.error = NULL]
  /\ storage' = partialize(auth')
  /\ UNCHANGED <<serverVars, pickerVars>>

\* An updateUser that takes the update as the user of a logged-out store.
updateStoreUserAlways(updatedUser) ==
  /\ auth' = [auth EXCEPT !.user = IF auth.user # NoUser
                                   THEN Spread(auth.user, updatedUser)
                                   ELSE updatedUser]
  /\ storage' = partialize(auth')
  /\ UNCHANGED <<serverVars, pickerVars>>

\* updateUser of the store.
updateStoreUser(updatedUser) ==
  /\ auth' = [auth EXCEPT !.user = IF auth.user # NoUser
                                   THEN Spread(auth.user, updatedUser)
                                   ELSE NoUser]
  /\ storage' = partialize(auth')
  /\ UNCHANGED <<serverVars, pickerVars>>

\* The app starts again: the store is created anew and persist merges the
\* item it wrote into the initial state.
Rehydrate ==
  /\ auth' = IF storage = NoStorage
             THEN InitialAuth
             ELSE [InitialAuth EXCEPT !.user = storage.user,
                                      !.token = storage.token,
                                      !.isAuthenticated = storage.isAuthenticated]
  /\ UNCHANGED storage
  /\ UNCHANGED <<serverVars, pickerVars>>

NextAuth ==
  \/ \E user \in StoreUsers, token \in StoreTokens : login(user, token)
  \/ \E user \in StoreUsers, token \in StoreTokens : register(user, token)
  \/ logout
  \/ \E loading \in BOOLEAN : setLoading(loading)
  \/ \E error \in StoreErrors : setError(error)
  \/ clearError
  \/ \E updatedUser \in UserUpdates : updateStoreUser(updatedUser)
  \/ Rehydrate

AuthSpec == Init /\ [][NextAuth]_vars

\* isAuthenticated is true exactly when user and token are not null.
AuthenticatedIffUserAndToken(state) ==
  state.isAuthenticated <=> (state.user # NoUser /\ state.token # NULL)

\* C30: after any sequence of login, register, logout, setLoading, setError,
\* clearError and updateUser, isAuthenticated is true exactly when user and
\* token are both not null; logout clears user, token, isAuthenticated,
\* isLoading and error together; setLoading, setError and clearError change
\* only their own field; updateUser on a logged-out store leaves user null.
C30_AuthStore ==
  [][/\ AuthenticatedIffUserAndToken(auth)
     /\ AuthenticatedIffUserAndToken(auth')
     /\ logout
         => /\ auth'.user = NoUser
            /\ auth'.token = NULL
            /\ ~auth'.isAuthenticated
            /\ ~auth'.isLoading
            /\ auth'.error = NULL
     /\ (\E loading \in BOOLEAN : setLoading(loading))
         => \A k \in DOMAIN auth \ {"isLoading"} : auth'[k] = auth[k]
     /\ ((\E error \in StoreErrors : setError(error)) \/ clearError)
         => \A k \in DOMAIN auth \ {"error"} : auth'[k] = auth[k]
     /\ clearError => auth'.error = NULL
     /\ \A updatedUser \in UserUpdates :
          (updateStoreUser(updatedUser) /\ auth.user = NoUser) => auth'.user = NoUser]_vars

\* A user is logged in and was updated, and setLoading and setError have
\* acted since: isAuthenticated is still true beside the user and the token.
C30_Witness ==
  /\ auth.isAuthenticated
  /\ auth.user # NoUser
  /\ auth.user.first_name = "B"
  /\ auth.token \in StoreTokens
  /\ auth.isLoading
  /\ auth.error = "e1"

====
